---- MODULE Spec2Model ----
(***************************************************************************)
(* The tool-calling chat relay of src/app/api/chat/route.ts (the POST      *)
(* handler of lines 329-527 with searchWithFirecrawl of lines 266-327 and  *)
(* the tool registry of lines 231-263).  One request is followed from its  *)
(* arrival to its HTTP response; every await of an outbound call is a step *)
(* boundary, and every outbound call is appended to the log `outbound`.    *)
(***************************************************************************)
EXTENDS Integers, Sequences, FiniteSets, TLC

(***************************************************************************)
(* JavaScript values.  undefined is the empty tuple, a defined value v is  *)
(* the one-element tuple <<v>>.  JSON values are tagged records.           *)
(***************************************************************************)
None == <<>>

Some(v) == <<v>>

JNull == [t |-> "null"]

JNum(n) == [t |-> "num", n |-> n]

JStr(s) == [t |-> "str", s |-> s]

JArr(items) == [t |-> "arr", items |-> items]

\* A parsed request body that is a JSON object; only its `messages` key is read.
JBody(m) == [t |-> "obj", messages |-> m]

\* `!v` of JavaScript for an optional JSON value.
Falsy(o) ==
    \/ o = None
    \/ o[1].t = "null"
    \/ (o[1].t = "num" /\ o[1].n = 0)
    \/ (o[1].t = "str" /\ o[1].s = "")

\* Array.isArray(v)
IsArray(o) == o # None /\ o[1].t = "arr"

\* `const { messages } = body`: destructuring null throws a TypeError, a
\* primitive has no such property.
Destructure(body) ==
    IF body.t = "null" THEN [threw |-> TRUE, messages |-> None]
    ELSE IF body.t = "obj" THEN [threw |-> FALSE, messages |-> body.messages]
    ELSE [threw |-> FALSE, messages |-> None]

(***************************************************************************)
(* Inputs of a request: the process environment, the request body, the     *)
(* answers of the completion service and of the retrieval service.         *)
(***************************************************************************)
Environments == [OPENAI_API_KEY : BOOLEAN, FIRECRAWL_API_KEY : BOOLEAN]

UserMsg(c) == [role |-> "user", content |-> c]

AssistantMsg(c) == [role |-> "assistant", content |-> c]

Histories ==
    { <<>>,
      <<UserMsg("hi"), AssistantMsg("hello"), UserMsg("find x")>> }

\* What `await req.json()` gives: a SyntaxError or the parsed body.
RequestBodies ==
    { [parse |-> "error"] }
    \cup { [parse |-> "ok", json |-> j] :
             j \in { JNull, JNum(7), JBody(None), JBody(Some(JNull)),
                     JBody(Some(JNum(0))), JBody(Some(JStr("hi"))),
                     JBody(Some(JBody(None))) } }
    \cup { [parse |-> "ok", json |-> JBody(Some(JArr(h)))] : h \in Histories }

\* The largest number of tool calls in one model response.
MaxCalls == 2

\* Call identifiers are opaque and distinct within one response.
CallIds == <<"call_b", "call_a", "call_d", "call_c">>

\* Argument payloads the model may produce (JSON text).
ArgStrings ==
    { "", "{bad", "null", "{}", "{\"query\":\"q\"}",
      "{\"query\":\"site:x.com\",\"limit\":25,\"lang\":\"de\"}" }

\* The limit arguments of the search runs: -LimitBound .. LimitBound, and 25.
LimitBound == 12

Limits == ((0 - LimitBound)..LimitBound) \cup { 25 }

\* The payload { query: "q", limit: n } as the model writes it.
LimitArg(n) == "{\"query\":\"q\",\"limit\":" \o ToString(n) \o "}"

\* The payloads of the search runs: every limit above, and no limit.
LimitArgStrings == { LimitArg(n) : n \in Limits } \cup { "{\"query\":\"q\"}" }

\* JSON.parse on the argument payloads above.
JSONParse(s) ==
    CASE s = "{bad" -> [threw |-> TRUE, val |-> JNull]
      [] s = "" -> [threw |-> TRUE, val |-> JNull]
      [] s = "null" -> [threw |-> FALSE, val |-> JNull]
      [] s = "{}" ->
           [threw |-> FALSE,
            val |-> [t |-> "obj", query |-> None, limit |-> None,
                     lang |-> None, country |-> None]]
      [] s = "{\"query\":\"q\"}" ->
           [threw |-> FALSE,
            val |-> [t |-> "obj", query |-> Some("q"), limit |-> None,
                     lang |-> None, country |-> None]]
      [] s = "{\"query\":\"site:x.com\",\"limit\":25,\"lang\":\"de\"}" ->
           [threw |-> FALSE,
            val |-> [t |-> "obj", query |-> Some("site:x.com"),
                     limit |-> Some(25), lang |-> Some("de"),
                     country |-> None]]
      [] \E n \in Limits : s = LimitArg(n) ->
           [threw |-> FALSE,
            val |-> [t |-> "obj", query |-> Some("q"),
                     limit |-> Some(CHOOSE n \in Limits : s = LimitArg(n)),
                     lang |-> None, country |-> None]]

\* The (name, arguments) pairs of the tool calls the model may request.
ToolRequests ==
    { [name |-> "search_web", arguments |-> a] : a \in ArgStrings }
    \cup { [name |-> "get_weather", arguments |-> a] :
             a \in { "null", "{\"query\":\"q\"}" } }

ToolCall(i, r) == [id |-> CallIds[i], type |-> "function", function |-> r]

ToolCallLists ==
    UNION { [1..n -> ToolRequests] : n \in 0..MaxCalls }

Usage(p, c) ==
    [prompt_tokens |-> p, completion_tokens |-> c, total_tokens |-> p + c]

\* completion.usage: absent, or the counters of the call.
Usages == { None, Some(Usage(3, 4)), Some(Usage(10, 20)) }

(***************************************************************************)
(* The retrieval service (Firecrawl search).                               *)
(***************************************************************************)
RawFull ==
    [title |-> Some("Page A"), url |-> Some("https://x.com/a"),
     description |-> Some("about a"), markdown |-> Some("# A"),
     screenshot |-> Some("https://img/a.png"),
     metadata |-> Some(<<[k |-> "statusCode", v |-> 200]>>)]

RawBare ==
    [title |-> None, url |-> Some("https://x.com/b"), description |-> None,
     markdown |-> None, screenshot |-> None, metadata |-> None]

\* What `await fetch(...)` and `await response.json()` give.
HttpError(status, text) ==
    [fault |-> FALSE, ok |-> FALSE, status |-> status, statusText |-> text]

HttpOk(json) == [fault |-> FALSE, ok |-> TRUE, status |-> 200, json |-> json]

Payload(success, data) ==
    [threw |-> FALSE, success |-> success, data |-> data]

FirecrawlResponses ==
    { [fault |-> TRUE, message |-> "fetch failed"],
      HttpError(503, "Service Unavailable"),
      HttpOk([threw |-> TRUE, message |-> "Unexpected token < in JSON"]),
      HttpOk(Payload(None, Some(<<RawFull>>))),
      HttpOk(Payload(Some(TRUE), Some(<<>>))),
      HttpOk(Payload(Some(TRUE), Some(<<RawBare>>))),
      HttpOk(Payload(Some(TRUE), Some(<<RawFull, RawBare>>))) }

\* `${query}` in a template literal.
Str(query) == IF query = None THEN "undefined" ELSE query[1]

\* `s || d` for an optional string.
OrStr(o, d) == IF o = None \/ o[1] = "" THEN d ELSE o[1]

\* `n || d` for an optional number.
OrNum(o, d) == IF o = None \/ o[1] = 0 THEN d ELSE o[1]

\* A slip in line 282: the limit is sent uncapped.
MinIsFirst(a, b) == a

\* Math.min
Min(a, b) == IF a < b THEN a ELSE b

\* The body of the outbound search request (route.ts 280-288).
SearchRequestBody(query, limit, lang, country) ==
    [query |-> query, limit |-> Min(limit, 10), lang |-> lang,
     country |-> country,
     scrapeOptions |-> [formats |-> <<"markdown", "screenshot@fullPage">>]]

\* A slip in the mapping: the fields are copied without their defaults, a
\* missing one staying undefined.
NormalizeResultWithoutDefaults(result) ==
    [title |-> IF result.title = None THEN None ELSE result.title[1],
     url |-> IF result.url = None THEN None ELSE result.url[1],
     description |->
         IF result.description = None THEN None ELSE result.description[1],
     markdown |-> IF result.markdown = None THEN None ELSE result.markdown[1],
     screenshot |-> result.screenshot,
     metadata |-> IF result.metadata = None THEN <<>> ELSE result.metadata[1]]

\* One result record in the normalized shape (route.ts 303-310); a null
\* screenshot is None, an empty metadata object is the empty tuple.
NormalizeResult(result) ==
    [title |-> OrStr(result.title, "No title"),
     url |-> OrStr(result.url, ""),
     description |-> OrStr(result.description, ""),
     markdown |-> OrStr(result.markdown, "No content available"),
     screenshot |-> IF result.screenshot = None \/ result.screenshot[1] = ""
                    THEN None ELSE result.screenshot,
     metadata |-> IF result.metadata = None THEN <<>> ELSE result.metadata[1]]

\* A slip in the catch block: the query is left out of the failure value.
SearchFailureWithoutQuery(query, msg) ==
    [success |-> FALSE, query |-> None, resultsCount |-> None,
     error |-> Some(msg), results |-> <<>>,
     summary |-> "Failed to search. Error: " \o msg]

\* The catch block of searchWithFirecrawl (route.ts 317-326).
SearchFailure(query, msg) ==
    [success |-> FALSE, query |-> query, resultsCount |-> None,
     error |-> Some(msg), results |-> <<>>,
     summary |-> "Failed to search for \"" \o Str(query) \o "\". Error: " \o msg]

\* The success value of searchWithFirecrawl (route.ts 299-312).
SearchSuccess(query, data) ==
    [success |-> TRUE, query |-> query, resultsCount |-> Some(Len(data)),
     error |-> None,
     results |-> [i \in 1..Len(data) |-> NormalizeResult(data[i])],
     summary |-> "Found " \o ToString(Len(data)) \o " results for \""
                 \o Str(query) \o "\""]

\* Whether searchWithFirecrawl reaches its fetch (route.ts 270-274).
SearchFetches(e) == e.FIRECRAWL_API_KEY

\* A slip in line 298: the test `data.data.length > 0` is left out.
searchWithFirecrawlAcceptingNoResult(e, query, resp) ==
    IF ~SearchFetches(e)
    THEN SearchFailure(query, "Firecrawl API key not configured")
    ELSE IF resp.fault THEN SearchFailure(query, resp.message)
    ELSE IF ~resp.ok
    THEN SearchFailure(query, "Firecrawl Search API error: "
                              \o ToString(resp.status) \o " " \o resp.statusText)
    ELSE IF resp.json.threw THEN SearchFailure(query, resp.json.message)
    ELSE IF resp.json.success = Some(TRUE) /\ resp.json.data # None
    THEN SearchSuccess(query, resp.json.data[1])
    ELSE SearchFailure(query, "Firecrawl search returned no results")

\* The value searchWithFirecrawl returns, given what its fetch gave; with no
\* credential it throws before the fetch and `resp` is not read.
searchWithFirecrawl(e, query, resp) ==
    IF ~SearchFetches(e)
    THEN SearchFailure(query, "Firecrawl API key not configured")
    ELSE IF resp.fault THEN SearchFailure(query, resp.message)
    ELSE IF ~resp.ok
    THEN SearchFailure(query, "Firecrawl Search API error: "
                              \o ToString(resp.status) \o " " \o resp.statusText)
    ELSE IF resp.json.threw THEN SearchFailure(query, resp.json.message)
    ELSE IF /\ resp.json.success = Some(TRUE)
            /\ resp.json.data # None
            /\ Len(resp.json.data[1]) > 0
    THEN SearchSuccess(query, resp.json.data[1])
    ELSE SearchFailure(query, "Firecrawl search returned no results")

(***************************************************************************)
(* JSON.stringify.  A JavaScript value handed to it is a tagged value:     *)
(* JStr, JNum, JBool, JNull, JArr, or JObj over the (key, value) entries   *)
(* of an object in insertion order, where the value of an entry is         *)
(* optional (None is undefined).  The JSON text it produces is modelled    *)
(* as the sequence of its lexical tokens: punctuation, the literals true,  *)
(* false and null, string tokens and numeral tokens (the decimal digits    *)
(* of the number, most significant first).  An entry whose value is undefined is not written.      *)
(* String escaping is not modelled: no string of the model holds a         *)
(* character that JSON escapes.                                            *)
(***************************************************************************)
Entry(k, v) == [k |-> k, v |-> v]

JBool(b) == [t |-> "bool", b |-> b]

JObj(entries) == [t |-> "object", entries |-> entries]

Tok(t, v) == [t |-> t, v |-> v]

Punct(c) == Tok(c, "")

RECURSIVE Digits(_)
\* The decimal digits of a natural number.
Digits(n) == IF n < 10 THEN << n >> ELSE Append(Digits(n \div 10), n % 10)

\* The comma before every member of an array or object but the first.
Separator(i) == IF i = 1 THEN <<>> ELSE << Punct(",") >>

RECURSIVE Stringify(_), Elements(_, _), Members(_, _)
Stringify(val) ==
    CASE val.t = "str" -> << Tok("str", val.s) >>
      [] val.t = "num" -> << Tok("num", Digits(val.n)) >>
      [] val.t = "bool" -> << Punct(IF val.b THEN "true" ELSE "false") >>
      [] val.t = "null" -> << Punct("null") >>
      [] val.t = "arr" ->
            << Punct("[") >> \o Elements(val.items, 1) \o << Punct("]") >>
      [] val.t = "object" ->
            << Punct("{") >>
            \o Members(SelectSeq(val.entries, LAMBDA e : e.v # None), 1)
            \o << Punct("}") >>

\* The texts of the elements of an array from position i on.
Elements(items, i) ==
    IF i > Len(items) THEN <<>>
    ELSE Separator(i) \o Stringify(items[i]) \o Elements(items, i + 1)

\* The texts of the members of an object from position i on: the entries
\* given are those with a defined value.
Members(entries, i) ==
    IF i > Len(entries) THEN <<>>
    ELSE Separator(i) \o << Tok("str", entries[i].k), Punct(":") >>
         \o Stringify(entries[i].v[1]) \o Members(entries, i + 1)

\* JSON.stringify of an object literal with the given entries.
JSONStringify(entries) == Stringify(JObj(entries))

\* An optional string or number as the value of an entry.
StrEntry(k, o) == Entry(k, IF o = None THEN None ELSE Some(JStr(o[1])))

NumEntry(k, o) == Entry(k, IF o = None THEN None ELSE Some(JNum(o[1])))

\* The metadata object of a record: its values are numbers.
MetadataValue(m) ==
    JObj([i \in 1..Len(m) |-> Entry(m[i].k, Some(JNum(m[i].v)))])

\* A normalized result record has every key defined; a null screenshot is
\* written as null.
ResultEntries(r) ==
    << Entry("title", Some(JStr(r.title))), Entry("url", Some(JStr(r.url))),
       Entry("description", Some(JStr(r.description))),
       Entry("markdown", Some(JStr(r.markdown))),
       Entry("screenshot", Some(IF r.screenshot = None THEN JNull
                                ELSE JStr(r.screenshot[1]))),
       Entry("metadata", Some(MetadataValue(r.metadata))) >>

\* The entries of a RetrievalResult in the order the client writes them
\* (route.ts 298-312, 317-326).
SearchDataEntries(d) ==
    << Entry("success", Some(JBool(d.success))), StrEntry("query", d.query) >>
    \o (IF d.success
        THEN << NumEntry("resultsCount", d.resultsCount),
                Entry("results",
                      Some(JArr([i \in 1..Len(d.results) |->
                                    JObj(ResultEntries(d.results[i]))]))),
                Entry("summary", Some(JStr(d.summary))) >>
        ELSE << StrEntry("error", d.error),
                Entry("results",
                      Some(JArr([i \in 1..Len(d.results) |->
                                    JObj(ResultEntries(d.results[i]))]))),
                Entry("summary", Some(JStr(d.summary))) >>)

\* A slip at the serialisation site: only the summary of the retrieval is
\* handed to the language model, JSON.stringify({ success, query, summary }).
SearchDataContentSummaryOnly(d) ==
    JSONStringify(<< Entry("success", Some(JBool(d.success))),
                     StrEntry("query", d.query),
                     Entry("summary", Some(JStr(d.summary))) >>)

\* JSON.stringify(searchData) (route.ts 452).
SearchDataContent(d) == JSONStringify(SearchDataEntries(d))

\* JSON.stringify({ error: msg }) (route.ts 418, 432, 459).
ErrorContent(msg) == JSONStringify(<< Entry("error", Some(JStr(msg))) >>)

ToolMessage(content, id) ==
    [role |-> "tool", content |-> content, tool_call_id |-> id]

(***************************************************************************)
(* The tool registry and the completion service.                           *)
(***************************************************************************)
\* The tool registry (route.ts 231-263): one function schema.
functions ==
    << [name |-> "search_web", required |-> <<"query">>,
        properties |-> <<"query", "limit", "lang", "country">>] >>

\* `functions.map(func => ({ type: "function", function: func }))`
Tools ==
    [i \in 1..Len(functions) |-> [type |-> "function", function |-> functions[i]]]

\* A slip in the request: the tool declaration is sent with every call.
CompletionCallWithToolsAlways(msgs, tools, maxTokens) ==
    [svc |-> "completion", model |-> "gpt-4o-mini", messages |-> msgs,
     tools |-> Some(Tools), max_tokens |-> maxTokens]

\* The outbound calls, as logged.
CompletionCall(msgs, tools, maxTokens) ==
    [svc |-> "completion", model |-> "gpt-4o-mini", messages |-> msgs,
     tools |-> tools, max_tokens |-> maxTokens]

RetrievalCall(id, body) == [svc |-> "retrieval", for |-> id, body |-> body]

ModelMessage(content, calls) ==
    [role |-> "assistant", content |-> content, tool_calls |-> calls]

Completion(choices, usage) ==
    [threw |-> FALSE, choices |-> choices, usage |-> usage]

Threw(msg) == [threw |-> TRUE, message |-> msg]

\* What the first `await openai.chat.completions.create` gives.
FirstCompletions ==
    { Threw("429 rate limited"), Completion(<<>>, None) }
    \cup { Completion(<<[message |-> ModelMessage(c, <<>>)]>>, u) :
             c \in { None, Some(""), Some("Hello!") }, u \in Usages }
    \cup { Completion(<<[message |->
                           ModelMessage(None,
                               [i \in 1..Len(l) |-> ToolCall(i, l[i])])]>>, u) :
             l \in ToolCallLists \ { <<>> },
             u \in { None, Some(Usage(3, 4)) } }

\* What the second `await openai.chat.completions.create` gives.
SecondCompletions ==
    { Threw("500 upstream error"), Completion(<<>>, Some(Usage(1, 0))),
      Completion(<<[message |-> ModelMessage(Some(""), <<>>)]>>,
                 Some(Usage(3, 4))) }
    \cup { Completion(<<[message |-> ModelMessage(c, <<>>)]>>, u) :
             c \in { None, Some("Here is what I found.") }, u \in Usages }

\* `completion.choices[0]?.message`
FirstMessage(c) == IF Len(c.choices) = 0 THEN None ELSE Some(c.choices[1].message)

\* `x?.prompt_tokens || 0` and its siblings (route.ts 491-493).
Tokens(usage) == IF usage = None THEN Usage(0, 0) ELSE usage[1]

\* A slip in the merge: the counters of the second call are left out.
MergeUsageFirstOnly(u1, u2) == Tokens(u1)

\* The merged usage of a two-call turn (route.ts 490-494).
MergeUsage(u1, u2) ==
    [prompt_tokens |-> Tokens(u1).prompt_tokens + Tokens(u2).prompt_tokens,
     completion_tokens |->
         Tokens(u1).completion_tokens + Tokens(u2).completion_tokens,
     total_tokens |-> Tokens(u1).total_tokens + Tokens(u2).total_tokens]

\* `functionArgs.query` and its siblings: a property of null throws, a
\* property of a primitive is undefined.
ReadArgs(val) ==
    IF val.t = "null" THEN [threw |-> TRUE]
    ELSE IF val.t = "obj"
    THEN [threw |-> FALSE, query |-> val.query, limit |-> val.limit,
          lang |-> val.lang, country |-> val.country]
    ELSE [threw |-> FALSE, query |-> None, limit |-> None, lang |-> None,
          country |-> None]

\* The arguments POST passes to searchWithFirecrawl (route.ts 440-445).
SearchArgs(a) ==
    [query |-> a.query, limit |-> OrNum(a.limit, 5), lang |-> OrStr(a.lang, "en"),
     country |-> OrStr(a.country, "us")]

(***************************************************************************)
(* HTTP responses of the relay.                                            *)
(***************************************************************************)
ErrorResponse(status, msg) == [status |-> status, body |-> [error |-> msg]]

\* A slip in the catch blocks: the failure is reported with status 200.
ErrorDetailsWithStatusOk(status, msg, details) ==
    [status |-> 200, body |-> [error |-> msg, details |-> details]]

\* An error response that also carries `details: error.message`.
ErrorDetails(status, msg, details) ==
    [status |-> status, body |-> [error |-> msg, details |-> details]]

\* A slip in line 495: the flag is derived from the results found.
ToolResponseFlaggedByResults(finalResponse, u1, u2, query, count) ==
    [status |-> 200,
     body |-> [response |-> finalResponse, usage |-> Some(MergeUsage(u1, u2)),
               functionCalled |-> count > 0, searchQuery |-> query,
               resultsCount |-> count]]

\* route.ts 488-498
ToolResponse(finalResponse, u1, u2, query, count) ==
    [status |-> 200,
     body |-> [response |-> finalResponse, usage |-> Some(MergeUsage(u1, u2)),
               functionCalled |-> TRUE, searchQuery |-> query,
               resultsCount |-> count]]

\* route.ts 502-508
PlainResponse(content, usage) ==
    [status |-> 200,
     body |-> [response |-> OrStr(content, "No response generated"),
               usage |-> usage, functionCalled |-> FALSE]]

(***************************************************************************)
(* The chat page (src/app/page.tsx 246-540).  A message is written without *)
(* its id and timestamp, which come from the clock and are read by the     *)
(* markup only.                                                            *)
(***************************************************************************)
Greeting ==
    [type |-> "assistant",
     content |-> "Hello! I can help you scrape information from websites. Just ask me what you'd like to know and I'll search for the most relevant information."]

\* What a render reads of the state: the attributes of the markup and the
\* values the handlers of that render close over.
View(p) ==
    [messages |-> p.messages, inputValue |-> p.inputValue,
     isLoading |-> p.isLoading]

\* useState(...) of lines 247-256 and the first render; no fetch is in
\* flight, none was sent, handleSendMessage was not called.
InitialPage ==
    [messages |-> <<Greeting>>, inputValue |-> "", isLoading |-> FALSE,
     rendered |-> [messages |-> <<Greeting>>, inputValue |-> "",
                   isLoading |-> FALSE],
     inFlight |-> <<>>, sent |-> <<>>, received |-> <<>>, calls |-> 0]

(***************************************************************************)
(* One request through POST.                                               *)
(***************************************************************************)
VARIABLES
    env,              \* process.env
    pc,               \* where the handler is: idle, first, tools, search, fetch,
                      \* second, done
    request,          \* what req.json() gave
    messages,         \* the `messages` of the body
    completion,       \* the first completion
    tcIdx,            \* position of the for-of loop over message.tool_calls
    toolResults,      \* the tool messages collected so far
    searchQuery,
    resultsCount,
    secondCompletion,
    outbound,         \* every outbound call issued, in order
    inbound,          \* what each outbound call gave, in the same order
    response,         \* the HTTP responses sent
    suspended,        \* another invocation of the handler, waiting at an await
    alone,            \* an invocation that ran with no other one in the process
    page              \* the chat page in the browser (ChatPage of page.tsx)

vars ==
    << env, pc, request, messages, completion, tcIdx, toolResults, searchQuery,
       resultsCount, secondCompletion, outbound, inbound, response,
       suspended, alone, page >>

Init ==
    /\ env \in Environments
    /\ pc = "idle"
    /\ request = None
    /\ messages = <<>>
    /\ completion = None
    /\ tcIdx = 0
    /\ toolResults = <<>>
    /\ searchQuery = Some("")
    /\ resultsCount = 0
    /\ secondCompletion = None
    /\ outbound = <<>>
    /\ inbound = <<>>
    /\ response = <<>>
    /\ suspended = None
    /\ alone = None
    /\ page = InitialPage

\* A slip in the outer catch: a fault that reaches it leaves the handler
\* without a response being sent.
RespondUnlessInternalError(r) ==
    /\ response' = IF r.status = 500 /\ r.body.error = "Internal server error"
                   THEN response ELSE Append(response, r)
    /\ pc' = "done"

Respond(r) ==
    /\ response' = Append(response, r)
    /\ pc' = "done"

\* The message under the loop.
message == FirstMessage(completion[1])[1]

toolCall == message.tool_calls[tcIdx]

\* `!messages || !Array.isArray(messages)` negated (route.ts 349).
ValidMessages(m) == ~Falsy(m) /\ IsArray(m)

\* A slip in the test of line 357: the credential is taken to be present.
CompletionConfiguredAlways(e) == TRUE

\* `!process.env.OPENAI_API_KEY` negated (route.ts 357).
CompletionConfigured(e) == e.OPENAI_API_KEY

\* A slip in the test of line 400: the tool branch is always taken.
HasToolCallsAlways(m) == TRUE

\* `message?.tool_calls && message.tool_calls.length > 0` (route.ts 400).
HasToolCalls(m) == Len(m.tool_calls) > 0

\* `functionName === 'search_web'` (route.ts 438).
IsRegistered(name) == name = functions[1].name

\* The outer catch (route.ts 510-526); the only faults that reach it are
\* TypeErrors of reading a property of null.
InternalError(details) == ErrorDetails(500, "Internal server error", details)

\* A slip in the handling of the body: req.json() is left unguarded, as in
\* the earlier variants of the handler, and its SyntaxError reaches the
\* outer catch.
InvalidJSONUnguarded ==
    ErrorDetails(500, "Internal server error", "Unexpected token in JSON")

\* The catch of `await req.json()` (route.ts 335-341).
InvalidJSON == ErrorResponse(400, "Invalid JSON in request body")

\* route.ts 329-379: from the arrival of the request to the first
\* completion-service call.
POST(b) ==
    /\ pc = "idle"
    /\ request' = Some(b)
    /\ UNCHANGED << env, completion, tcIdx, toolResults, searchQuery,
                    resultsCount, secondCompletion, inbound, suspended, alone, page >>
    /\ IF b.parse = "error"
       THEN /\ Respond(InvalidJSON)
            /\ UNCHANGED << messages, outbound >>
       ELSE LET d == Destructure(b.json) IN
            IF d.threw
            THEN /\ Respond(InternalError(
                         "Cannot destructure property 'messages' of 'body' as it is null."))
                 /\ UNCHANGED << messages, outbound >>
            ELSE IF ~ValidMessages(d.messages)
            THEN /\ Respond(ErrorResponse(400, "Messages must be an array"))
                 /\ UNCHANGED << messages, outbound >>
            ELSE IF ~CompletionConfigured(env)
            THEN /\ Respond(ErrorResponse(500,
                     "OpenAI API key not configured. Please add OPENAI_API_KEY to your .env.local file."))
                 /\ UNCHANGED << messages, outbound >>
            ELSE /\ messages' = d.messages[1].items
                 /\ outbound' =
                        Append(outbound,
                               CompletionCall(messages', Some(Tools), 1000))
                 /\ pc' = "first"
                 /\ UNCHANGED response

\* route.ts 380-406 and 501-508: the first completion settles.
FirstCompletionReturns(c) ==
    /\ pc = "first"
    /\ completion' = Some(c)
    /\ inbound' = Append(inbound, c)
    /\ UNCHANGED << env, request, messages, secondCompletion, outbound,
                    toolResults, searchQuery, resultsCount, suspended, alone, page >>
    /\ IF c.threw
       THEN /\ Respond(ErrorDetails(500, "Failed to get response from OpenAI",
                                 c.message))
            /\ UNCHANGED tcIdx
       ELSE IF FirstMessage(c) = None
       THEN /\ Respond(ErrorResponse(500, "No response generated by OpenAI"))
            /\ UNCHANGED tcIdx
       ELSE IF HasToolCalls(FirstMessage(c)[1])
       THEN /\ pc' = "tools"
            /\ tcIdx' = 1
            /\ UNCHANGED response
       ELSE /\ Respond(PlainResponse(FirstMessage(c)[1].content, c.usage))
            /\ UNCHANGED tcIdx

\* `toolResults.push(...)` followed by the next iteration.
Push(content) ==
    /\ toolResults' = Append(toolResults, ToolMessage(content, toolCall.id))
    /\ tcIdx' = tcIdx + 1
    /\ pc' = "tools"

\* A slip in lines 447-448: the query and the count of the first search are
\* kept, later searches not overwriting them.
FinishSearchKeepingFirst(a, data) ==
    /\ searchQuery' = IF toolResults = <<>> THEN a.query ELSE searchQuery
    /\ resultsCount' = IF toolResults = <<>> THEN OrNum(data.resultsCount, 0)
                       ELSE resultsCount
    /\ Push(SearchDataContent(data))

\* route.ts 447-454: the search result is recorded and pushed.
FinishSearch(a, data) ==
    /\ searchQuery' = a.query
    /\ resultsCount' = OrNum(data.resultsCount, 0)
    /\ Push(SearchDataContent(data))

\* route.ts 408-463: one iteration of the loop, up to its await or its end.
ProcessToolCall ==
    /\ pc = "tools"
    /\ tcIdx <= Len(message.tool_calls)
    /\ UNCHANGED << env, request, messages, completion, secondCompletion,
                    inbound, suspended, alone, page >>
    /\ LET fn == toolCall.function IN
       IF fn.arguments = ""
       THEN /\ Push(ErrorContent("Function arguments missing"))
            /\ UNCHANGED << searchQuery, resultsCount, outbound, response >>
       ELSE IF JSONParse(fn.arguments).threw
       THEN /\ Push(ErrorContent("Invalid function arguments"))
            /\ UNCHANGED << searchQuery, resultsCount, outbound, response >>
       ELSE IF ~IsRegistered(fn.name)
       THEN /\ Push(ErrorContent("Unknown function: " \o fn.name))
            /\ UNCHANGED << searchQuery, resultsCount, outbound, response >>
       ELSE LET a == ReadArgs(JSONParse(fn.arguments).val) IN
            IF a.threw
            THEN /\ Respond(InternalError(
                         "Cannot read properties of null (reading 'query')"))
                 /\ UNCHANGED << tcIdx, toolResults, searchQuery, resultsCount,
                                 outbound >>
            ELSE IF SearchFetches(env)
            THEN /\ outbound' =
                        Append(outbound,
                               RetrievalCall(toolCall.id,
                                   SearchRequestBody(SearchArgs(a).query,
                                       SearchArgs(a).limit, SearchArgs(a).lang,
                                       SearchArgs(a).country)))
                 /\ pc' = "fetch"
                 /\ UNCHANGED << tcIdx, toolResults, searchQuery, resultsCount,
                                 response >>
            ELSE /\ pc' = "search"
                 /\ UNCHANGED << tcIdx, toolResults, searchQuery, resultsCount,
                                 outbound, response >>

\* route.ts 270-272, 317-326 and 440-454: searchWithFirecrawl threw before
\* its fetch, the credential missing, and returned its failure value; POST,
\* suspended at `await searchWithFirecrawl(...)`, goes on with it.
SearchReturns ==
    /\ pc = "search"
    /\ FinishSearch(ReadArgs(JSONParse(toolCall.function.arguments).val),
                    searchWithFirecrawl(env,
                        ReadArgs(JSONParse(toolCall.function.arguments).val).query,
                        None))
    /\ UNCHANGED << env, request, messages, completion, secondCompletion,
                    outbound, inbound, response, suspended, alone, page >>

\* route.ts 289-326 and 447-454: the fetch of searchWithFirecrawl settles.
FetchReturns(r) ==
    /\ pc = "fetch"
    /\ FinishSearch(ReadArgs(JSONParse(toolCall.function.arguments).val),
                    searchWithFirecrawl(env,
                        ReadArgs(JSONParse(toolCall.function.arguments).val).query,
                        r))
    /\ inbound' = Append(inbound, r)
    /\ UNCHANGED << env, request, messages, completion, secondCompletion,
                    outbound, response, suspended, alone, page >>

\* A slip in lines 468-472: a system prompt is put before the history, as
\* in an earlier variant of the handler.
SecondCallMessagesWithSystemPrompt ==
    <<[role |-> "system", content |-> "You are a helpful assistant."]>>
    \o messages \o <<message>> \o toolResults

\* `[...messages, message, ...toolResults]` (route.ts 468-472).
SecondCallMessages == messages \o <<message>> \o toolResults

\* route.ts 465-477: the loop is over, the second completion call is issued.
CallSecondCompletion ==
    /\ pc = "tools"
    /\ tcIdx > Len(message.tool_calls)
    /\ outbound' =
           Append(outbound,
                  CompletionCall(SecondCallMessages, None, 1500))
    /\ pc' = "second"
    /\ UNCHANGED << env, request, messages, completion, tcIdx, toolResults,
                    searchQuery, resultsCount, secondCompletion, inbound,
                    response, suspended, alone, page >>

\* A slip in line 486: the content is returned without the fallback.
finalResponseWithoutFallback(c) ==
    IF Len(c.choices) = 0 \/ c.choices[1].message.content = None THEN ""
    ELSE c.choices[1].message.content[1]

\* `secondCompletion.choices[0]?.message?.content || '...'` (route.ts 486).
finalResponse(c) ==
    OrStr(IF Len(c.choices) = 0 THEN None ELSE c.choices[1].message.content,
          "Unable to process the search results.")

\* route.ts 478-498: the second completion settles.
SecondCompletionReturns(c) ==
    /\ pc = "second"
    /\ secondCompletion' = Some(c)
    /\ inbound' = Append(inbound, c)
    /\ IF c.threw
       THEN Respond(ErrorDetails(500, "Failed to process search results",
                                 c.message))
       ELSE Respond(ToolResponse(finalResponse(c), completion[1].usage, c.usage,
                                 searchQuery, resultsCount))
    /\ UNCHANGED << env, request, messages, completion, tcIdx, toolResults,
                    searchQuery, resultsCount, outbound, suspended, alone, page >>

\* The guards are stated before the inputs are drawn.
Next ==
    \/ (pc = "idle" /\ \E b \in RequestBodies : POST(b))
    \/ (pc = "first" /\ \E c \in FirstCompletions : FirstCompletionReturns(c))
    \/ ProcessToolCall
    \/ SearchReturns
    \/ (pc = "fetch" /\ \E r \in FirecrawlResponses : FetchReturns(r))
    \/ CallSecondCompletion
    \/ (pc = "second" /\ \E c \in SecondCompletions : SecondCompletionReturns(c))

Spec == Init /\ [][Next]_vars

(***************************************************************************)
(* The search runs: the same handler, followed on requests in which the    *)
(* model asks for one search with each of the limit arguments above.       *)
(***************************************************************************)
SearchBodies ==
    { [parse |-> "ok", json |-> JBody(Some(JArr(h)))] : h \in Histories \ { <<>> } }

SearchCompletions ==
    { Completion(<<[message |->
                      ModelMessage(None,
                          <<ToolCall(1, [name |-> "search_web",
                                         arguments |-> a])>>)]>>,
                 Some(Usage(3, 4))) :
        a \in LimitArgStrings }

SearchNext ==
    \/ (pc = "idle" /\ \E b \in SearchBodies : POST(b))
    \/ (pc = "first" /\ \E c \in SearchCompletions : FirstCompletionReturns(c))
    \/ ProcessToolCall
    \/ SearchReturns
    \/ (pc = "fetch" /\ \E r \in FirecrawlResponses : FetchReturns(r))
    \/ CallSecondCompletion
    \/ (pc = "second" /\ \E c \in SecondCompletions : SecondCompletionReturns(c))

SearchSpec == Init /\ [][SearchNext]_vars

(***************************************************************************)
(* The turns followed for progress: the same handler, on one input for     *)
(* each way a body, a completion, a tool call and a fetch can turn out.    *)
(***************************************************************************)
TurnBodies ==
    { [parse |-> "error"], [parse |-> "ok", json |-> JNull],
      [parse |-> "ok", json |-> JBody(None)] }
    \cup { [parse |-> "ok", json |-> JBody(Some(JArr(h)))] : h \in Histories }

TurnRequests ==
    { [name |-> "search_web", arguments |-> "{\"query\":\"q\"}"],
      [name |-> "search_web", arguments |-> "null"],
      [name |-> "search_web", arguments |-> "{bad"],
      [name |-> "get_weather", arguments |-> "{\"query\":\"q\"}"] }

TurnCompletions ==
    { Threw("429 rate limited"), Completion(<<>>, None),
      Completion(<<[message |-> ModelMessage(Some("Hello!"), <<>>)]>>,
                 Some(Usage(3, 4))) }
    \cup { Completion(<<[message |->
                           ModelMessage(None,
                               [i \in 1..Len(l) |-> ToolCall(i, l[i])])]>>,
                      Some(Usage(3, 4))) :
             l \in UNION { [1..n -> TurnRequests] : n \in 1..MaxCalls } }

TurnFetches ==
    { [fault |-> TRUE, message |-> "fetch failed"],
      HttpError(503, "Service Unavailable"),
      HttpOk(Payload(Some(TRUE), Some(<<RawFull>>))) }

TurnSecondCompletions ==
    { Threw("500 upstream error"),
      Completion(<<[message |-> ModelMessage(None, <<>>)]>>, None),
      Completion(<<[message |->
                      ModelMessage(Some("Here is what I found."), <<>>)]>>,
                 Some(Usage(10, 20))) }

\* The steps in which an outbound call settles.
TurnReturns ==
    \/ (pc = "first" /\ \E c \in TurnCompletions : FirstCompletionReturns(c))
    \/ (pc = "fetch" /\ \E r \in TurnFetches : FetchReturns(r))
    \/ (pc = "second"
          /\ \E c \in TurnSecondCompletions : SecondCompletionReturns(c))

\* The steps the handler takes by itself.
TurnHandler ==
    \/ (pc = "idle" /\ \E b \in TurnBodies : POST(b))
    \/ ProcessToolCall
    \/ SearchReturns
    \/ CallSecondCompletion

TurnNext == TurnHandler \/ TurnReturns

TurnSpec == Init /\ [][TurnNext]_vars

\* The runtime keeps running the handler, and every outbound call
\* eventually returns or fails.
LiveSpec == TurnSpec /\ WF_vars(TurnHandler) /\ WF_vars(TurnReturns)

\* The runtime keeps running the handler, but an outbound call may never
\* settle: the code sets no timeout on create() nor on fetch().
HungSpec == TurnSpec /\ WF_vars(TurnHandler)

(***************************************************************************)
(* Several requests in one process.  Every binding of POST is declared     *)
(* inside the function (route.ts 332-486), so each invocation has its own; *)
(* process.env, `openai` and `functions` belong to the module and are only *)
(* read.  The runtime runs one invocation at a time and changes to another *)
(* one only while the running one waits at an await.                       *)
(***************************************************************************)

\* The bindings of the running invocation, with what it sent and received.
Locals ==
    [ pc |-> pc, request |-> request, messages |-> messages,
      completion |-> completion, tcIdx |-> tcIdx, toolResults |-> toolResults,
      searchQuery |-> searchQuery, resultsCount |-> resultsCount,
      secondCompletion |-> secondCompletion, outbound |-> outbound,
      inbound |-> inbound, response |-> response ]

\* The bindings of an invocation that has not started.
Fresh ==
    [ pc |-> "idle", request |-> None, messages |-> <<>>, completion |-> None,
      tcIdx |-> 0, toolResults |-> <<>>, searchQuery |-> Some(""),
      resultsCount |-> 0, secondCompletion |-> None, outbound |-> <<>>,
      inbound |-> <<>>, response |-> <<>> ]

\* A slip: `toolResults` is declared at module level, one array for every
\* invocation.
ResumeWithSharedToolResults(saved) ==
    /\ pc' = saved.pc
    /\ request' = saved.request
    /\ messages' = saved.messages
    /\ completion' = saved.completion
    /\ tcIdx' = saved.tcIdx
    /\ UNCHANGED toolResults
    /\ searchQuery' = saved.searchQuery
    /\ resultsCount' = saved.resultsCount
    /\ secondCompletion' = saved.secondCompletion
    /\ outbound' = saved.outbound
    /\ inbound' = saved.inbound
    /\ response' = saved.response

\* The runtime goes on with the invocation `saved`: every binding of the
\* handler is that invocation's own.
Resume(saved) ==
    /\ pc' = saved.pc
    /\ request' = saved.request
    /\ messages' = saved.messages
    /\ completion' = saved.completion
    /\ tcIdx' = saved.tcIdx
    /\ toolResults' = saved.toolResults
    /\ searchQuery' = saved.searchQuery
    /\ resultsCount' = saved.resultsCount
    /\ secondCompletion' = saved.secondCompletion
    /\ outbound' = saved.outbound
    /\ inbound' = saved.inbound
    /\ response' = saved.response

\* The first request of the process has been answered with no other one
\* around; two more requests arrive.
Arrive ==
    /\ alone = None
    /\ pc = "done"
    /\ alone' = Some(Locals)
    /\ suspended' = Some(Fresh)
    /\ Resume(Fresh)
    /\ UNCHANGED << env, page >>

\* The running invocation is not in the synchronous part of the loop
\* (pc = "tools"): the runtime changes to the other invocation.
Switch ==
    /\ suspended # None
    /\ pc # "tools"
    /\ suspended' = Some(Locals)
    /\ Resume(suspended[1])
    /\ UNCHANGED << env, alone, page >>

PairBodies ==
    { [parse |-> "ok", json |-> JBody(Some(JArr(h)))] : h \in Histories }

PairCompletions ==
    { Threw("429 rate limited"),
      Completion(<<[message |-> ModelMessage(Some("Hello!"), <<>>)]>>,
                 Some(Usage(3, 4))),
      Completion(<<[message |->
                      ModelMessage(None,
                          <<ToolCall(1, [name |-> "search_web",
                                         arguments |-> "{\"query\":\"q\"}"]),
                            ToolCall(2, [name |-> "search_web",
                                         arguments |-> "null"])>>)]>>,
                 Some(Usage(3, 4))),
      Completion(<<[message |->
                      ModelMessage(None,
                          <<ToolCall(1, [name |-> "search_web",
                                         arguments |-> "{\"query\":\"q\"}"])>>)]>>,
                 Some(Usage(3, 4))),
      Completion(<<[message |->
                      ModelMessage(None,
                          <<ToolCall(1, [name |-> "search_web",
                                         arguments |-> "{\"query\":\"q\"}"]),
                            ToolCall(2, [name |-> "get_weather",
                                         arguments |-> "{\"query\":\"q\"}"])>>)]>>,
                 Some(Usage(3, 4))) }

PairFetches ==
    { HttpError(503, "Service Unavailable"),
      HttpOk(Payload(Some(TRUE), Some(<<RawFull>>))) }

PairSecondCompletions ==
    { Threw("500 upstream error"),
      Completion(<<[message |->
                      ModelMessage(Some("Here is what I found."), <<>>)]>>,
                 Some(Usage(10, 20))) }

PairNext ==
    \/ (pc = "idle" /\ \E b \in PairBodies : POST(b))
    \/ (pc = "first" /\ \E c \in PairCompletions : FirstCompletionReturns(c))
    \/ ProcessToolCall
    \/ SearchReturns
    \/ (pc = "fetch" /\ \E r \in PairFetches : FetchReturns(r))
    \/ CallSecondCompletion
    \/ (pc = "second"
          /\ \E c \in PairSecondCompletions : SecondCompletionReturns(c))
    \/ Arrive
    \/ Switch

PairSpec == Init /\ [][PairNext]_vars

(***************************************************************************)
(* The chat page in the browser.  React runs one handler at a time; the    *)
(* state updates a handler makes during a click, a key press or an input   *)
(* are rendered before the next event is delivered, those made after an    *)
(* await are rendered by a later step.  A disabled control delivers no     *)
(* event.                                                                  *)
(***************************************************************************)

\* The largest number of calls of handleSendMessage in one run.
MaxPresses == 2

\* What the user may have typed into the input.
Inputs == { "", "  ", "find x", " site:x.com news " }

\* String.prototype.trim on the inputs above.
Trim(str) ==
    CASE str = "" -> ""
      [] str = "  " -> ""
      [] str = "find x" -> "find x"
      [] str = " site:x.com news " -> "site:x.com news"

\* A slip in line 522: the input stays enabled while a send is loading.
InputDisabledNever(r) == FALSE

\* `disabled={isLoading}` of the input (page.tsx 522).
InputDisabled(r) == r.isLoading

\* `disabled={!inputValue.trim() || isLoading}` of the button (page.tsx 527).
ButtonDisabled(r) == Trim(r.inputValue) = "" \/ r.isLoading

\* The key presses delivered to the input.
KeyEvents == [key : {"Enter", "a"}, shiftKey : BOOLEAN]

\* The `data` of a response of /api/chat; a key that is absent is None.
Data(resp, called, query, count) ==
    [t |-> "obj", response |-> resp, functionCalled |-> called,
     searchQuery |-> query, resultsCount |-> count]

\* What `await fetch('/api/chat')` and `await response.json()` give.
PageAnswers ==
    { [fault |-> TRUE, message |-> "Failed to fetch"],
      HttpError(500, "Internal Server Error"),
      HttpOk([threw |-> TRUE, message |-> "Unexpected token < in JSON"]),
      HttpOk([threw |-> FALSE, data |-> JNull]),
      HttpOk([threw |-> FALSE,
              data |-> Data(Some("Hello!"), Some(FALSE), None, None)]),
      HttpOk([threw |-> FALSE,
              data |-> Data(Some(""), Some(TRUE), Some(""), Some(0))]),
      HttpOk([threw |-> FALSE,
              data |-> Data(Some("Here is what I found."), Some(TRUE),
                            Some("site:x.com news"), Some(2))]),
      HttpOk([threw |-> FALSE,
              data |-> Data(Some("Nothing found."), Some(TRUE), Some("find x"),
                            None)]) }

\* `data.searchQuery.includes('site:')` on the queries above.
IncludesSite(query) == query = "site:x.com news"

\* The indicator line of lines 403-407; the two icons are written by name.
Indicator(data) ==
    (IF IncludesSite(data.searchQuery[1]) THEN "[spider]" ELSE "[magnifier]")
    \o " *"
    \o (IF IncludesSite(data.searchQuery[1]) THEN "Searched site"
        ELSE "Web search")
    \o ": \"" \o data.searchQuery[1] \o "\" ("
    \o ToString(OrNum(data.resultsCount, 0)) \o " results)*\n\n"

\* The content of the assistant message (page.tsx 400-408).
AssistantContent(data) ==
    LET content == OrStr(data.response, "Sorry, I couldn't generate a response.")
    IN  IF /\ data.functionCalled = Some(TRUE)
           /\ data.searchQuery # None
           /\ data.searchQuery[1] # ""
        THEN Indicator(data) \o content
        ELSE content

ErrorText ==
    "Sorry, I encountered an error. Please make sure your OpenAI API key is configured."

\* Whether the try block of handleSendMessage throws on the answer `a`:
\* fetch rejects, the status is not OK (394-396), the body is not JSON, or
\* `data` is null and `data.response` cannot be read.
Throws(a) ==
    \/ a.fault
    \/ ~a.ok
    \/ a.json.threw
    \/ a.json.data.t = "null"

\* `[...messages, userMessage].map(...)` and JSON.stringify (379-391).
ConversationMessages(msgs) ==
    [messages |->
        [i \in 1..Len(msgs) |->
            [role |-> IF msgs[i].type = "user" THEN "user" ELSE "assistant",
             content |-> msgs[i].content]]]

\* A slip: `setMessages([...messages, m])`, the list being the one the
\* handler closed over when it was called.
AppendToClosure(p, closure, m) ==
    [p EXCEPT !.messages = Append(closure.messages, m)]

\* `setMessages(prev => [...prev, m])` (page.tsx 373, 417, 426).
AppendMessage(p, closure, m) ==
    [p EXCEPT !.messages = Append(p.messages, m)]

\* page.tsx 363-392: handleSendMessage of the render `closure`, up to its
\* await.
handleSendMessage(p, closure) ==
    IF Trim(closure.inputValue) = ""
    THEN [p EXCEPT !.calls = @ + 1]
    ELSE LET userMessage == [type |-> "user", content |-> closure.inputValue]
             body == ConversationMessages(Append(closure.messages, userMessage))
             q == AppendMessage(p, closure, userMessage)
         IN  [q EXCEPT !.inputValue = "",
                       !.isLoading = TRUE,
                       !.inFlight = Append(@, [body |-> body,
                                                closure |-> closure]),
                       !.sent = Append(@, body),
                       !.calls = @ + 1]

\* The render React makes of the state.
Commit(p) == [p EXCEPT !.rendered = View(p)]

\* A slip: `setIsLoading(false)` is the last statement of the try block.
ContinueWithoutFinally(p, closure, a) ==
    IF Throws(a)
    THEN AppendMessage(p, closure, [type |-> "assistant", content |-> ErrorText])
    ELSE [AppendMessage(p, closure,
              [type |-> "assistant",
               content |-> AssistantContent(a.json.data)])
            EXCEPT !.isLoading = FALSE]

\* page.tsx 394-429: handleSendMessage after its await.
Continue(p, closure, a) ==
    [(IF Throws(a)
      THEN AppendMessage(p, closure,
               [type |-> "assistant", content |-> ErrorText])
      ELSE AppendMessage(p, closure,
               [type |-> "assistant",
                content |-> AssistantContent(a.json.data)]))
        EXCEPT !.isLoading = FALSE]

Remove(seq, k) == SubSeq(seq, 1, k - 1) \o SubSeq(seq, k + 1, Len(seq))

\* Everything but the page.
relay ==
    << env, pc, request, messages, completion, tcIdx, toolResults, searchQuery,
       resultsCount, secondCompletion, outbound, inbound, response,
       suspended, alone >>

\* onChange of the input (page.tsx 520).
Change(v) ==
    /\ ~InputDisabled(page.rendered)
    /\ v # page.inputValue
    /\ page' = Commit([page EXCEPT !.inputValue = v])
    /\ UNCHANGED relay

\* onClick of the button (page.tsx 526).
Click ==
    /\ ~ButtonDisabled(page.rendered)
    /\ page.calls < MaxPresses
    /\ page' = Commit(handleSendMessage(page, page.rendered))
    /\ UNCHANGED relay

\* handleKeyPress (page.tsx 432-437).
handleKeyPress(e) ==
    /\ ~InputDisabled(page.rendered)
    /\ page.calls < MaxPresses
    /\ page' = IF e.key = "Enter" /\ ~e.shiftKey
               THEN Commit(handleSendMessage(page, page.rendered))
               ELSE page
    /\ UNCHANGED relay

\* The fetch of the k-th call in flight settles.
Settle(k, a) ==
    /\ k \in 1..Len(page.inFlight)
    /\ page' = [Continue(page, page.inFlight[k].closure, a)
                  EXCEPT !.inFlight = Remove(@, k),
                         !.received = Append(@, a)]
    /\ UNCHANGED relay

\* React renders the updates made after an await.
Render ==
    /\ page.rendered # View(page)
    /\ page' = Commit(page)
    /\ UNCHANGED relay

\* The events of the user.
PageEvents ==
    \/ \E v \in Inputs : Change(v)
    \/ Click
    \/ \E e \in KeyEvents : handleKeyPress(e)

\* The steps of the browser.
PageSettles ==
    \/ \E k \in 1..MaxPresses : \E a \in PageAnswers : Settle(k, a)
    \/ Render

PageNext == PageEvents \/ PageSettles

PageSpec == Init /\ [][PageNext]_vars

\* Every fetch the page issues settles, and React renders.
PageLiveSpec == PageSpec /\ WF_vars(PageSettles)

(***************************************************************************)
(* Vocabulary of the properties: what an observer of the HTTP traffic sees.*)
(***************************************************************************)
Calls(svc) == SelectSeq(outbound, LAMBDA c : c.svc = svc)

Responded == pc = "done" /\ Len(response) = 1

Status == response[1].status

\* The request body carries a `messages` array.
HasMessagesArray(json) ==
    /\ json.t = "obj"
    /\ json.messages # None
    /\ json.messages[1].t = "arr"

\* The first completion-service call returned a message.
FirstAnswered ==
    /\ Len(inbound) >= 1
    /\ ~inbound[1].threw
    /\ Len(inbound[1].choices) > 0

\* The tool-call requests of the model's first response.
FirstToolCalls ==
    IF FirstAnswered THEN inbound[1].choices[1].message.tool_calls ELSE <<>>

ToolMessagesOf(call) == SelectSeq(call.messages, LAMBDA m : m.role = "tool")

SecondCallIssued == Len(Calls("completion")) = 2

SecondCall == Calls("completion")[2]

\* The tool messages of `call` that answer the tool call `id`.
AnswersTo(call, id) ==
    SelectSeq(ToolMessagesOf(call), LAMBDA m : m.tool_call_id = id)

(***************************************************************************)
(* Reading a tool-message content back, as the language model's side does: *)
(* a recursive-descent JSON parser over the tokens of the text.  It knows  *)
(* nothing of the shapes the handler writes.  ParseValue(toks, i) parses   *)
(* the value that starts at token i and returns it with the position of    *)
(* the token after it.                                                     *)
(***************************************************************************)
RECURSIVE NumberOf(_)
\* The number a numeral denotes.
NumberOf(digits) ==
    IF Len(digits) = 0 THEN 0
    ELSE 10 * NumberOf(SubSeq(digits, 1, Len(digits) - 1)) + digits[Len(digits)]

RECURSIVE ParseValue(_, _), ParseElements(_, _, _), ParseMembers(_, _, _)
ParseValue(toks, i) ==
    LET tk == toks[i] IN
    CASE tk.t = "str" -> [val |-> JStr(tk.v), next |-> i + 1]
      [] tk.t = "num" -> [val |-> JNum(NumberOf(tk.v)), next |-> i + 1]
      [] tk.t = "true" -> [val |-> JBool(TRUE), next |-> i + 1]
      [] tk.t = "false" -> [val |-> JBool(FALSE), next |-> i + 1]
      [] tk.t = "null" -> [val |-> JNull, next |-> i + 1]
      [] tk.t = "[" ->
            IF toks[i + 1].t = "]" THEN [val |-> JArr(<<>>), next |-> i + 2]
            ELSE ParseElements(toks, i + 1, <<>>)
      [] tk.t = "{" ->
            IF toks[i + 1].t = "}" THEN [val |-> JObj(<<>>), next |-> i + 2]
            ELSE ParseMembers(toks, i + 1, <<>>)

ParseElements(toks, i, acc) ==
    LET e == ParseValue(toks, i)
        items == Append(acc, e.val)
    IN  IF toks[e.next].t = "," THEN ParseElements(toks, e.next + 1, items)
        ELSE [val |-> JArr(items), next |-> e.next + 1]

ParseMembers(toks, i, acc) ==
    LET e == ParseValue(toks, i + 2)
        entries == Append(acc, Entry(toks[i].v, Some(e.val)))
    IN  IF toks[e.next].t = "," THEN ParseMembers(toks, e.next + 1, entries)
        ELSE [val |-> JObj(entries), next |-> e.next + 1]

\* JSON.parse of a tool-message content.
ParseContent(content) == ParseValue(content, 1).val

\* Reading a key of a parsed JSON value: None when it is not an object or
\* the key is absent.
Get(doc, key) ==
    IF doc.t = "object" /\ \E i \in 1..Len(doc.entries) : doc.entries[i].k = key
    THEN doc.entries[CHOOSE i \in 1..Len(doc.entries) : doc.entries[i].k = key].v
    ELSE None

\* An optional string as the optional JSON string it is read back as.
TextOf(o) == IF o = None THEN None ELSE Some(JStr(o[1]))

\* A tool message content of the shape { error: ... }.
IsErrorContent(content) ==
    LET doc == ParseContent(content)
    IN  doc.t = "object" /\ Len(doc.entries) = 1 /\ doc.entries[1].k = "error"

\* A tool message content that is a failure-tagged retrieval result.
IsFailureTagged(content) ==
    Get(ParseContent(content), "success") = Some(JBool(FALSE))

\* An argument payload that is syntactically valid JSON.
SyntacticallyValid(arguments) == arguments # "" /\ ~JSONParse(arguments).threw

\* No completion-service call of the request failed.
NoCompletionFailure ==
    \A i \in 1..Len(inbound) :
        outbound[i].svc = "completion" => ~inbound[i].threw

(***************************************************************************)
(* C1.  A request whose body has no `messages` field, or whose `messages`  *)
(* is not an array, is answered 400 and no outbound call is issued.        *)
(* Violated: the body `null` is valid JSON without a `messages` field, the *)
(* destructuring of line 343 throws and the outer catch answers 500.       *)
(***************************************************************************)
C1_InvalidMessagesGet400 ==
    (/\ Responded
     /\ request[1].parse = "ok"
     /\ ~HasMessagesArray(request[1].json))
    => (Status = 400 /\ outbound = <<>>)

(***************************************************************************)
(* C2.  When the model's first response carries no tool-call request, the  *)
(* relay has issued exactly one completion-service call and no             *)
(* retrieval-service call when it responds.                                *)
(***************************************************************************)
C2_NoToolCallOneCompletionCall ==
    (/\ Responded
     /\ Len(inbound) >= 1
     /\ ~inbound[1].threw
     /\ FirstToolCalls = <<>>)
    => (/\ Len(Calls("completion")) = 1
        /\ Len(Calls("retrieval")) = 0
        /\ Len(outbound) = 1)

\* C2's case: a direct answer was returned.
C2_Witness ==
    /\ Responded
    /\ FirstAnswered
    /\ FirstToolCalls = <<>>
    /\ Status = 200
    /\ response[1].body.response = "Hello!"

(***************************************************************************)
(* C3.  With the credentials configured, when the model's first response   *)
(* requests search_web once with a syntactically valid argument payload,   *)
(* the relay issues exactly one retrieval-service call, between its first  *)
(* and its second completion-service call, and the tool message of the     *)
(* second call carries the id of the request.                              *)
(* Violated: the payload `null` is valid JSON; reading `.query` of it      *)
(* (line 441) throws, the outer catch answers 500 and neither the          *)
(* retrieval call nor the second completion call is issued.                *)
(***************************************************************************)
C3_OneSearchOneRetrievalCall ==
    (/\ Responded
     /\ env.FIRECRAWL_API_KEY
     /\ Len(FirstToolCalls) = 1
     /\ FirstToolCalls[1].function.name = "search_web"
     /\ SyntacticallyValid(FirstToolCalls[1].function.arguments))
    => (/\ Len(outbound) = 3
        /\ outbound[1].svc = "completion"
        /\ outbound[2].svc = "retrieval"
        /\ outbound[3].svc = "completion"
        /\ Len(ToolMessagesOf(outbound[3])) = 1
        /\ ToolMessagesOf(outbound[3])[1].tool_call_id = FirstToolCalls[1].id)

(***************************************************************************)
(* C4.  When the model's first response contains N >= 1 tool-call          *)
(* requests, all N are processed: the second completion-service call is    *)
(* issued and carries exactly N tool messages, the i-th answering the i-th *)
(* request.                                                                *)
(* Violated: a search_web request whose payload is `null` ends the request *)
(* with 500 (see C26); the requests after it are not processed and no      *)
(* second call is issued.                                                  *)
(***************************************************************************)
C4_AllToolCallsAnsweredInOrder ==
    (Responded /\ Len(FirstToolCalls) >= 1)
    => (/\ tcIdx = Len(FirstToolCalls) + 1
        /\ SecondCallIssued
        /\ Len(ToolMessagesOf(SecondCall)) = Len(FirstToolCalls)
        /\ \A i \in 1..Len(FirstToolCalls) :
               ToolMessagesOf(SecondCall)[i].tool_call_id = FirstToolCalls[i].id)

\* The tool calls (positions) whose iteration of the loop has completed, each
\* with one of the outcomes: retrieval succeeded or failed, payload missing
\* or unparseable, tool unknown.
Processed == { i \in 1..Len(FirstToolCalls) : i < tcIdx }

(***************************************************************************)
(* C5.  For every tool-call request of the first response, whatever its    *)
(* outcome, the second completion-service call carries exactly one tool    *)
(* message with the id of that request, and no tool message with another   *)
(* id.                                                                     *)
(* Violated: when a later search_web request has the payload `null` the    *)
(* request ends with 500 (see C26) and the tool message already built for  *)
(* the earlier request is never sent.                                      *)
(***************************************************************************)
C5_OneToolMessagePerRequest ==
    (Responded /\ Processed # {})
    => (/\ SecondCallIssued
        /\ \A i \in Processed :
               Len(AnswersTo(SecondCall, FirstToolCalls[i].id)) = 1
        /\ \A j \in 1..Len(ToolMessagesOf(SecondCall)) :
               \E i \in 1..Len(FirstToolCalls) :
                   ToolMessagesOf(SecondCall)[j].tool_call_id
                       = FirstToolCalls[i].id)

\* The retrieval calls (positions in the log) answered with a non-2xx status.
Non2xxAnswers ==
    { i \in 1..Len(inbound) :
        /\ outbound[i].svc = "retrieval"
        /\ ~inbound[i].fault
        /\ ~inbound[i].ok }

\* `choices[0]?.message?.content` of a completion, None when there is none.
ContentOf(c) ==
    IF Len(c.choices) = 0 THEN None ELSE c.choices[1].message.content

(***************************************************************************)
(* C6.  When a retrieval call is answered with a non-2xx status (and the   *)
(* completion service does not fail), the relay does not respond 500: it   *)
(* issues the second completion-service call with a failure-tagged tool    *)
(* message for that tool call and responds 200 with the response of the    *)
(* second call.                                                            *)
(* Violated: a later search_web request with the payload `null` ends the   *)
(* request with 500 (see C26).                                             *)
(***************************************************************************)
C6_RetrievalFailureStillAnswers200 ==
    (Responded /\ NoCompletionFailure)
    => \A i \in Non2xxAnswers :
           /\ Status = 200
           /\ SecondCallIssued
           /\ Len(AnswersTo(SecondCall, outbound[i].for)) = 1
           /\ IsFailureTagged(AnswersTo(SecondCall, outbound[i].for)[1].content)
           /\ (ContentOf(inbound[Len(inbound)]) \notin { None, Some("") }
               => response[1].body.response
                      = ContentOf(inbound[Len(inbound)])[1])

\* `total_tokens` and its siblings as a completion reported them, 0 when it
\* reported no usage.
Reported(c, field) == IF c.usage = None THEN 0 ELSE c.usage[1][field]

TokenFields == { "prompt_tokens", "completion_tokens", "total_tokens" }

\* The retrieval client was invoked for some tool call of the request.
ToolInvoked ==
    \E i \in 1..Len(toolResults) :
        Get(ParseContent(toolResults[i].content), "success") # None

\* The usage of the response is the sum over both completion calls.
UsageIsSumOfBoth ==
    /\ Len(inbound) >= 2
    /\ response[1].body.usage # None
    /\ \A f \in TokenFields :
           response[1].body.usage[1][f]
               = Reported(inbound[1], f) + Reported(inbound[Len(inbound)], f)

\* The usage of the response is the usage the first call reported.
UsageIsFirstOnly == response[1].body.usage = inbound[1].usage

(***************************************************************************)
(* C7, as stated.  In every 200 response the usage counters are the sums   *)
(* over both completion calls when a tool was invoked, and those of the    *)
(* first call when no tool was invoked.                                    *)
(* Violated: when every tool call of the first response is unknown or has  *)
(* a missing or unparseable payload, no tool is invoked, yet a second      *)
(* completion call is made and the counters are the sums over both calls.  *)
(***************************************************************************)
C7_UsageSummedWhenToolInvoked ==
    (Responded /\ Status = 200)
    => IF ToolInvoked THEN UsageIsSumOfBoth ELSE UsageIsFirstOnly

(***************************************************************************)
(* C7, amended.  In every 200 response the usage counters are the sums     *)
(* over both completion calls (a call that reports no usage counting 0)    *)
(* when the first response carried at least one tool-call request, whether *)
(* or not a tool was invoked for it, and the usage of the first call when  *)
(* it carried none.                                                        *)
(***************************************************************************)
C7_UsageSummedWhenToolRequested ==
    (Responded /\ Status = 200)
    => IF Len(FirstToolCalls) >= 1 THEN UsageIsSumOfBoth ELSE UsageIsFirstOnly

\* C7's case: a two-call turn in which both calls reported usage, answered 200.
C7_Witness ==
    /\ Responded
    /\ Status = 200
    /\ ToolInvoked
    /\ inbound[1].usage = Some(Usage(3, 4))
    /\ inbound[Len(inbound)].usage = Some(Usage(10, 20))
    /\ response[1].body.usage[1].total_tokens = 37

\* Every completion-service call of the request returned, the first one
\* with a message.
UpstreamSucceeded == FirstAnswered /\ NoCompletionFailure

(***************************************************************************)
(* C8.  For every well-formed `messages` array, with the completion        *)
(* credential configured and the completion service succeeding, the relay  *)
(* issues at least one completion-service call and responds 200 with a     *)
(* non-empty `response` string.                                            *)
(* Violated: a search_web request with the payload `null` ends the request *)
(* with 500 although the completion service succeeded (see C26).           *)
(***************************************************************************)
C8_WellFormedRequestAnswered200 ==
    (/\ Responded
     /\ request[1].parse = "ok"
     /\ HasMessagesArray(request[1].json)
     /\ env.OPENAI_API_KEY
     /\ UpstreamSucceeded)
    => (/\ Len(Calls("completion")) >= 1
        /\ Status = 200
        /\ response[1].body.response # "")

\* The tool calls (positions) whose payload was found not to parse.
UnparseableCalls ==
    { i \in Processed :
        /\ FirstToolCalls[i].function.arguments # ""
        /\ JSONParse(FirstToolCalls[i].function.arguments).threw }

(***************************************************************************)
(* C9.  When the payload of a tool call fails to parse as JSON, that tool  *)
(* call becomes an error-content tool message with its own id, the request *)
(* is not aborted, the remaining tool calls are processed and the second   *)
(* completion-service call is issued.                                      *)
(* Violated: a later search_web request with the payload `null` aborts the *)
(* request with 500 (see C26); no second call is issued.                   *)
(***************************************************************************)
C9_ParseFailureIsIsolated ==
    Responded
    => \A i \in UnparseableCalls :
           /\ SecondCallIssued
           /\ Len(AnswersTo(SecondCall, FirstToolCalls[i].id)) = 1
           /\ IsErrorContent(AnswersTo(SecondCall, FirstToolCalls[i].id)[1].content)
           /\ \A j \in (i + 1)..Len(FirstToolCalls) :
                  Len(AnswersTo(SecondCall, FirstToolCalls[j].id)) = 1

\* The processed tool calls (positions) that name a tool other than the
\* registered one.
UnknownCalls ==
    { i \in Processed : FirstToolCalls[i].function.name # "search_web" }

(***************************************************************************)
(* C10.  When a tool call names a tool other than search_web, no           *)
(* retrieval-service call is issued for it and the second                  *)
(* completion-service call carries an error tool message with its id.      *)
(* Violated: a later search_web request with the payload `null` ends the   *)
(* request with 500 (see C26) and the error message is never sent.         *)
(***************************************************************************)
C10_UnknownToolAnsweredWithError ==
    Responded
    => \A i \in UnknownCalls :
           /\ \A k \in 1..Len(outbound) :
                  outbound[k].svc = "retrieval"
                      => outbound[k].for # FirstToolCalls[i].id
           /\ SecondCallIssued
           /\ Len(AnswersTo(SecondCall, FirstToolCalls[i].id)) = 1
           /\ IsErrorContent(AnswersTo(SecondCall, FirstToolCalls[i].id)[1].content)

(***************************************************************************)
(* The violations of C3, C4, C5, C6, C8, C9 and C10 all pass through the   *)
(* TypeError of a search_web request whose payload is `null`: on every run *)
(* without such a request the seven properties hold.                       *)
(***************************************************************************)
NoNullPayload ==
    \A i \in 1..Len(FirstToolCalls) :
        ~(/\ FirstToolCalls[i].function.name = "search_web"
          /\ SyntacticallyValid(FirstToolCalls[i].function.arguments)
          /\ JSONParse(FirstToolCalls[i].function.arguments).val.t = "null")

HoldWithoutNullPayload ==
    NoNullPayload
    => (/\ C3_OneSearchOneRetrievalCall
        /\ C4_AllToolCallsAnsweredInOrder
        /\ C5_OneToolMessagePerRequest
        /\ C6_RetrievalFailureStillAnswers200
        /\ C8_WellFormedRequestAnswered200
        /\ C9_ParseFailureIsIsolated
        /\ C10_UnknownToolAnsweredWithError)

\* Likewise C1 holds for every parsed body other than `null`.
C1_HoldsForNonNullBody ==
    (request # None /\ request[1].parse = "ok" /\ request[1].json.t # "null")
    => C1_InvalidMessagesGet400

(***************************************************************************)
(* C11.  The first completion-service call of a request carries the tool   *)
(* declaration of the registry, which declares exactly one tool            *)
(* (search_web); the second completion-service call carries no tool        *)
(* declaration.                                                            *)
(***************************************************************************)
C11_ToolsOfferedOnFirstCallOnly ==
    LET calls == Calls("completion") IN
    /\ Len(calls) >= 1
           => /\ calls[1].tools # None
              /\ Len(calls[1].tools[1]) = 1
              /\ calls[1].tools[1][1].type = "function"
              /\ calls[1].tools[1][1].function = functions[1]
              /\ calls[1].tools[1][1].function.name = "search_web"
    /\ Len(calls) >= 2
           => calls[2].tools = None

\* C11's case: both completion-service calls were issued and answered.
C11_Witness ==
    /\ Responded
    /\ SecondCallIssued
    /\ Len(ToolMessagesOf(SecondCall)) >= 1
    /\ Status = 200

(***************************************************************************)
(* C12.  When the completion-service credential is not configured, no      *)
(* completion-service or retrieval-service call is ever issued, and every  *)
(* request whose body carries a `messages` array is answered 500.          *)
(***************************************************************************)
C12_NoCompletionCredentialGets500 ==
    ~env.OPENAI_API_KEY
    => (/\ outbound = <<>>
        /\ (/\ Responded
            /\ request[1].parse = "ok"
            /\ HasMessagesArray(request[1].json))
           => Status = 500)

\* C12's case: a well-formed request was answered without the credential.
C12_Witness ==
    /\ Responded
    /\ ~env.OPENAI_API_KEY
    /\ request[1].parse = "ok"
    /\ HasMessagesArray(request[1].json)
    /\ request[1].json.messages[1].items # <<>>
    /\ Status = 500

\* The processed tool calls (positions) that request the registered tool
\* with a payload that parses: those for which searchWithFirecrawl was called.
SearchedCalls ==
    { i \in Processed :
        /\ FirstToolCalls[i].function.name = "search_web"
        /\ SyntacticallyValid(FirstToolCalls[i].function.arguments) }

(***************************************************************************)
(* C13.  When the retrieval-service credential is not configured and the   *)
(* model requests the registered tool, the request is answered 500.        *)
(* Violated: searchWithFirecrawl throws 'Firecrawl API key not configured' *)
(* inside its own try (lines 270-272), its catch (lines 317-326) turns     *)
(* that into a failure-tagged result, the loop goes on and the request is  *)
(* answered 200 with the answer of the second completion call.             *)
(***************************************************************************)
C13_NoRetrievalCredentialGets500 ==
    (/\ Responded
     /\ ~env.FIRECRAWL_API_KEY
     /\ SearchedCalls # {})
    => Status = 500

\* The completion-service calls (positions in the log) that failed.
FailedCompletionCalls ==
    { i \in 1..Len(inbound) : outbound[i].svc = "completion" /\ inbound[i].threw }

(***************************************************************************)
(* C14.  A failed completion-service call, the first or the second, ends   *)
(* the request with status 500; no call of any kind is issued after it     *)
(* (no retry; after a failed first call no retrieval call and no second    *)
(* completion call), and a request never makes more than two               *)
(* completion-service calls.                                               *)
(***************************************************************************)
C14_CompletionFailureGets500 ==
    /\ Len(Calls("completion")) <= 2
    /\ \A i \in FailedCompletionCalls :
           /\ Responded
           /\ Status = 500
           /\ Len(outbound) = i
           /\ (i = 1 => (/\ Len(Calls("retrieval")) = 0
                         /\ Len(Calls("completion")) = 1))

\* C14's case: the second completion-service call failed, after a retrieval.
C14_Witness ==
    /\ Responded
    /\ Len(Calls("completion")) = 2
    /\ Len(Calls("retrieval")) >= 1
    /\ Len(outbound) \in FailedCompletionCalls
    /\ Status = 500

\* The other case of C14: the first call failed.
C14_WitnessFirst ==
    /\ Responded
    /\ 1 \in FailedCompletionCalls
    /\ Status = 500

\* The retrieval calls (positions in the log) whose fetch met one of: a
\* network fault, a non-2xx status, a body that is not JSON, a payload
\* without the success indicator.
FailedRetrievals ==
    { i \in 1..Len(inbound) :
        /\ outbound[i].svc = "retrieval"
        /\ \/ inbound[i].fault
           \/ ~inbound[i].ok
           \/ inbound[i].json.threw
           \/ inbound[i].json.success = None }

\* The tool messages collected so far for the tool call `id`.
Collected(id) == SelectSeq(toolResults, LAMBDA m : m.tool_call_id = id)

(***************************************************************************)
(* C15.  The retrieval client does not raise: when its fetch meets a       *)
(* network fault, a non-2xx status, a body that is not JSON or a payload   *)
(* without the success indicator, the handler goes on with one tool        *)
(* message for that tool call, whose content is a failure-tagged result    *)
(* carrying the query the client was called with and a non-empty error     *)
(* string.                                                                 *)
(***************************************************************************)
C15_RetrievalClientNeverRaises ==
    \A i \in FailedRetrievals :
        LET collected == Collected(outbound[i].for) IN
        /\ Len(collected) = 1
        /\ LET content == ParseContent(collected[1].content) IN
           /\ Get(content, "success") = Some(JBool(FALSE))
           /\ Get(content, "query") = TextOf(outbound[i].body.query)
           /\ Get(content, "error") # None
           /\ Get(content, "error")[1].t = "str"
           /\ Get(content, "error")[1].s # ""
           /\ Get(content, "results") = Some(JArr(<<>>))

\* C15's case: a search for a given query was answered 503 and the turn
\* was completed.
C15_Witness ==
    /\ Responded
    /\ Status = 200
    /\ \E i \in FailedRetrievals :
           /\ ~inbound[i].fault
           /\ ~inbound[i].ok
           /\ outbound[i].body.query = Some("q")
           /\ Get(ParseContent(Collected(outbound[i].for)[1].content), "error")
                  = Some(JStr("Firecrawl Search API error: 503 Service Unavailable"))

\* The tool-call request the retrieval call at position k of the log is for.
RequestOf(k) ==
    FirstToolCalls[CHOOSE i \in 1..Len(FirstToolCalls) :
                       FirstToolCalls[i].id = outbound[k].for]

\* The limit argument of that request, None when the payload has none.
LimitArgument(k) ==
    ReadArgs(JSONParse(RequestOf(k).function.arguments).val).limit

RetrievalCalls == { k \in 1..Len(outbound) : outbound[k].svc = "retrieval" }

(***************************************************************************)
(* C16.  For every limit argument greater than 10 (11, 12, 25, ...) the    *)
(* limit of the outbound retrieval-service call is 10.                     *)
(***************************************************************************)
C16_LimitAboveTenIsSentAsTen ==
    \A k \in RetrievalCalls :
        (LimitArgument(k) # None /\ LimitArgument(k)[1] > 10)
        => outbound[k].body.limit = 10

\* C16's case: the model asked for 25 results and the search was sent.
C16_Witness ==
    \E k \in RetrievalCalls :
        /\ LimitArgument(k) = Some(25)
        /\ outbound[k].body.limit = 10
        /\ Len(inbound) >= k

(***************************************************************************)
(* C17.  For every integer limit argument, zero and negative ones          *)
(* included, and for an absent one, the limit of the outbound              *)
(* retrieval-service call lies in 1..10, and it is 5 when the argument is  *)
(* absent.                                                                 *)
(* Violated: line 282 caps the limit from above only (Math.min(limit,10)); *)
(* a negative limit argument is truthy, passes `functionArgs.limit || 5`   *)
(* (line 442) and is sent as it is.                                        *)
(***************************************************************************)
C17_OutboundLimitWithinOneToTen ==
    \A k \in RetrievalCalls :
        /\ outbound[k].body.limit \in 1..10
        /\ (LimitArgument(k) = None => outbound[k].body.limit = 5)

\* The negative limit arguments are the only ones sent out of range.
C17_HoldsForNonNegativeLimits ==
    \A k \in RetrievalCalls :
        (LimitArgument(k) = None \/ LimitArgument(k)[1] >= 0)
        => (/\ outbound[k].body.limit \in 1..10
            /\ (LimitArgument(k) \in { None, Some(0) }
                   => outbound[k].body.limit = 5))

(***************************************************************************)
(* C18.  A request whose body is not valid JSON is answered 400, not 500,  *)
(* and no outbound call is issued for it.                                  *)
(***************************************************************************)
C18_InvalidJSONGets400 ==
    (request # None /\ request[1].parse = "error")
    => (/\ Responded
        /\ Status = 400
        /\ outbound = <<>>)

\* C18's case: a body that is not JSON was received and answered.
C18_Witness ==
    /\ Responded
    /\ request[1].parse = "error"
    /\ response[1] = [status |-> 400,
                      body |-> [error |-> "Invalid JSON in request body"]]

\* The second completion-service call was answered without a failure.
SecondAnswered ==
    /\ SecondCallIssued
    /\ Len(inbound) = Len(outbound)
    /\ ~inbound[Len(inbound)].threw

SecondAnswer == inbound[Len(inbound)]

(***************************************************************************)
(* C19.  When the second completion-service call succeeds and its message  *)
(* has no content (no message, no content, or the empty string), the relay *)
(* responds 200 and `response` is the fixed non-empty string               *)
(* 'Unable to process the search results.'.                                *)
(***************************************************************************)
C19_EmptySecondAnswerGetsFallback ==
    (SecondAnswered /\ ContentOf(SecondAnswer) \in { None, Some("") })
    => (/\ Responded
        /\ Status = 200
        /\ response[1].body.response # ""
        /\ response[1].body.response = "Unable to process the search results.")

\* C19's case: the second answer carried the empty string as content.
C19_Witness ==
    /\ Responded
    /\ SecondAnswered
    /\ Len(SecondAnswer.choices) = 1
    /\ ContentOf(SecondAnswer) = Some("")
    /\ Status = 200

\* The other cases of C19: no content, and no message at all.
C19_WitnessAbsent ==
    /\ Responded
    /\ SecondAnswered
    /\ Len(SecondAnswer.choices) = 1
    /\ ContentOf(SecondAnswer) = None

C19_WitnessNoMessage ==
    /\ Responded
    /\ SecondAnswered
    /\ Len(SecondAnswer.choices) = 0

\* The retrieval calls (positions in the log) whose fetch has settled.
AnsweredRetrievals ==
    { i \in 1..Len(inbound) : outbound[i].svc = "retrieval" }

\* The RetrievalResult searchWithFirecrawl returned for the call at i.
Returned(i) == searchWithFirecrawl(env, outbound[i].body.query, inbound[i])

\* The titles of a RetrievalResult, in order.
TitlesOf(r) == [j \in 1..Len(r.results) |-> Some(JStr(r.results[j].title))]

\* The records of a parsed tool-message content: the elements of its
\* `results` key, none when the key is absent or is not an array.
ParsedRecords(doc) ==
    LET rs == Get(doc, "results")
    IN  IF rs = None \/ rs[1].t # "arr" THEN <<>> ELSE rs[1].items

\* The titles read from a parsed tool-message content: the `title` key of
\* each of its records.
ParsedTitles(doc) ==
    [j \in 1..Len(ParsedRecords(doc)) |-> Get(ParsedRecords(doc)[j], "title")]

\* The count of a RetrievalResult as the optional JSON number it is read
\* back as.
CountOf(r) ==
    IF r.resultsCount = None THEN None ELSE Some(JNum(r.resultsCount[1]))

(***************************************************************************)
(* C20.  For every RetrievalResult the client returns, successful or not,  *)
(* the text pushed as the content of the tool message (JSON.stringify),    *)
(* parsed back (JSON.parse), is an object that has the same resultsCount   *)
(* (absent when the result has none), a `results` array with as many       *)
(* records, and the same record titles in the same order.                  *)
(***************************************************************************)
C20_ContentRoundTripKeepsCountAndTitles ==
    \A i \in AnsweredRetrievals :
        /\ Len(Collected(outbound[i].for)) = 1
        /\ LET parsed == ParseContent(Collected(outbound[i].for)[1].content)
               returned == Returned(i)
           IN  /\ parsed.t = "object"
               /\ Get(parsed, "resultsCount") = CountOf(returned)
               /\ Get(parsed, "results") # None
               /\ Get(parsed, "results")[1].t = "arr"
               /\ Len(ParsedRecords(parsed)) = Len(returned.results)
               /\ ParsedTitles(parsed) = TitlesOf(returned)

\* C20's case: a result with two records, one of them with the default
\* title, was serialized into a tool message and read back.
C20_Witness ==
    \E i \in AnsweredRetrievals :
        /\ Returned(i).success
        /\ Returned(i).resultsCount = Some(2)
        /\ Len(Collected(outbound[i].for)) = 1
        /\ Get(ParseContent(Collected(outbound[i].for)[1].content),
               "resultsCount") = Some(JNum(2))
        /\ ParsedTitles(ParseContent(Collected(outbound[i].for)[1].content))
               = << Some(JStr("Page A")), Some(JStr("No title")) >>

\* The retrieval calls (positions in the log) that gave a success-tagged
\* result.
SucceededRetrievals == { i \in AnsweredRetrievals : Returned(i).success }

\* The keys of the normalized record shape.
RecordKeys ==
    { "title", "url", "description", "markdown", "screenshot", "metadata" }

\* A metadata object of the external record as the JSON object it is read
\* back as.
MetadataRead(m) ==
    JObj([k \in 1..Len(m) |-> Entry(m[k].k, Some(JNum(m[k].v)))])

\* `raw || d` for an optional string of the external record.
Defaulted(raw, d) == IF raw = None \/ raw[1] = "" THEN d ELSE raw[1]

(***************************************************************************)
(* C21.  In every success-tagged result, every record written to the tool  *)
(* message has all six keys of the normalized shape, none of them missing  *)
(* or undefined; a field the external record lacks carries its default     *)
(* ('No title', '', '', 'No content available', null, {}), a field it has  *)
(* carries its value.                                                      *)
(***************************************************************************)
C21_RecordsHaveEveryKeyDefined ==
    \A i \in SucceededRetrievals :
        LET raw == inbound[i].json.data[1]
            recs == ParsedRecords(
                        ParseContent(Collected(outbound[i].for)[1].content))
        IN  /\ Len(recs) = Len(raw)
            /\ \A j \in 1..Len(recs) :
                   /\ recs[j].t = "object"
                   /\ \A key \in RecordKeys : Get(recs[j], key) # None
                   /\ Len(recs[j].entries) = Cardinality(RecordKeys)
                   /\ Get(recs[j], "title")
                          = Some(JStr(Defaulted(raw[j].title, "No title")))
                   /\ Get(recs[j], "url")
                          = Some(JStr(Defaulted(raw[j].url, "")))
                   /\ Get(recs[j], "description")
                          = Some(JStr(Defaulted(raw[j].description, "")))
                   /\ Get(recs[j], "markdown")
                          = Some(JStr(Defaulted(raw[j].markdown,
                                                "No content available")))
                   /\ Get(recs[j], "screenshot")
                          = Some(IF raw[j].screenshot = None THEN JNull
                                 ELSE JStr(raw[j].screenshot[1]))
                   /\ Get(recs[j], "metadata")
                          = Some(IF raw[j].metadata = None THEN JObj(<<>>)
                                 ELSE MetadataRead(raw[j].metadata[1]))

\* C21's case: an external record with nothing but a URL was normalized.
C21_Witness ==
    \E i \in SucceededRetrievals :
        /\ inbound[i].json.data[1] = <<RawBare>>
        /\ Get(ParsedRecords(
                   ParseContent(Collected(outbound[i].for)[1].content))[1],
               "title") = Some(JStr("No title"))
        /\ Get(ParsedRecords(
                   ParseContent(Collected(outbound[i].for)[1].content))[1],
               "screenshot") = Some(JNull)

\* The outbound network calls issued by the client for the tool call `id`.
FetchesFor(id) ==
    SelectSeq(outbound, LAMBDA c : c.svc = "retrieval" /\ c.for = id)

(***************************************************************************)
(* C22.  Each invocation of the retrieval client issues exactly one        *)
(* outbound network call: one is issued, and after it has failed no        *)
(* further one is.                                                         *)
(* Violated, by the handling of the missing credential (see C13): invoked  *)
(* without the retrieval credential the client throws inside its own try   *)
(* before its fetch (lines 270-272), its catch (lines 317-326) returns a   *)
(* failure-tagged result, and the invocation is over without any network   *)
(* call.  With the credential the client issues its one fetch (line 274)   *)
(* and never a second one.                                                 *)
(***************************************************************************)
C22_OneFetchPerInvocation ==
    \A i \in SearchedCalls : Len(FetchesFor(FirstToolCalls[i].id)) = 1

\* The positions in the log of the completion-service calls.
CompletionPositions ==
    { k \in 1..Len(outbound) : outbound[k].svc = "completion" }

(***************************************************************************)
(* C23.  A request issues at most two completion-service calls, and the    *)
(* second one is issued only after the first one has returned a response   *)
(* that contains at least one tool-call request.                           *)
(***************************************************************************)
C23_AtMostTwoCompletionCalls ==
    /\ Cardinality(CompletionPositions) <= 2
    /\ \A k \in CompletionPositions :
           k > 1 => (/\ outbound[1].svc = "completion"
                     /\ Len(inbound) >= k - 1
                     /\ FirstAnswered
                     /\ Len(FirstToolCalls) >= 1)

\* C23's case: a second completion-service call was issued, here without
\* any retrieval call between the two.
C23_Witness ==
    /\ Cardinality(CompletionPositions) = 2
    /\ Len(outbound) = 2
    /\ Len(FirstToolCalls) = 2
    /\ pc = "second"

\* The tool calls (positions) of the first response that name the
\* registered tool and have a parseable argument payload.
SearchRequests ==
    { i \in 1..Len(FirstToolCalls) :
        /\ FirstToolCalls[i].function.name = "search_web"
        /\ SyntacticallyValid(FirstToolCalls[i].function.arguments) }

(***************************************************************************)
(* C24.  With the retrieval credential configured, when the first response *)
(* carries several tool calls, every retrieval-service call of the request *)
(* was issued and answered before the second completion-service call is    *)
(* issued, and when the request is answered the number of                  *)
(* retrieval-service calls equals the number of tool calls that name       *)
(* search_web and have a parseable payload.                                *)
(* Violated: the payload `null` is parseable; the search_web request that  *)
(* carries it ends the request with 500 (see C26) without a retrieval      *)
(* call, for itself and for the requests after it.                         *)
(***************************************************************************)
C24_RetrievalsCompleteBeforeSecondCall ==
    (env.FIRECRAWL_API_KEY /\ Len(FirstToolCalls) >= 2)
    => (/\ \A k \in CompletionPositions : \A r \in RetrievalCalls :
               k > 1 => (r < k /\ Len(inbound) >= k - 1)
        /\ Responded
              => Cardinality(RetrievalCalls) = Cardinality(SearchRequests))

\* Without a search_web request whose payload is `null`, C24 holds.
C24_HoldsWithoutNullPayload ==
    NoNullPayload => C24_RetrievalsCompleteBeforeSecondCall

\* The `messages` array of the request body, as it arrived.
IncomingHistory == request[1].json.messages[1].items

(***************************************************************************)
(* C25.  The message list of the second completion-service call is the     *)
(* incoming history, unchanged and in order, then the message of the       *)
(* model's first response, then the tool messages, one per tool call in    *)
(* request order, and nothing else; the first call carried the same        *)
(* history and the handler's `messages` still equals it.                   *)
(***************************************************************************)
C25_SecondCallExtendsHistory ==
    SecondCallIssued
    => LET h == IncomingHistory
           sent == SecondCall.messages
       IN  /\ Len(sent) = Len(h) + 1 + Len(FirstToolCalls)
           /\ SubSeq(sent, 1, Len(h)) = h
           /\ sent[Len(h) + 1] = inbound[1].choices[1].message
           /\ \A j \in 1..Len(FirstToolCalls) :
                  /\ sent[Len(h) + 1 + j].role = "tool"
                  /\ sent[Len(h) + 1 + j].tool_call_id = FirstToolCalls[j].id
           /\ SubSeq(sent, Len(h) + 2, Len(sent)) = toolResults
           /\ Calls("completion")[1].messages = h
           /\ messages = h

\* C25's case: a history of three messages was extended with the model's
\* message and two tool messages.
C25_Witness ==
    /\ SecondCallIssued
    /\ Len(IncomingHistory) = 3
    /\ Len(SecondCall.messages) = 6
    /\ SecondCall.messages[6].role = "tool"

\* The request ended in the outer catch (route.ts 510-526).
EndedInOuterCatch ==
    /\ Responded
    /\ Status = 500
    /\ response[1].body.error = "Internal server error"

(***************************************************************************)
(* C26.  Whatever the argument payloads of the tool calls of the first     *)
(* response (missing, unparseable, or parsing to a JSON value that is not  *)
(* an object, such as null), the request does not end in the outer catch   *)
(* with 500 and the second completion-service call is issued.              *)
(* Violated: for a search_web request with the payload `null`, JSON.parse  *)
(* succeeds (line 427) and `functionArgs.query` (line 441) throws a        *)
(* TypeError that no inner try encloses; the outer catch answers 500 and   *)
(* no second call is issued.                                               *)
(***************************************************************************)
C26_NoPayloadReachesTheHttpLayer ==
    (Responded /\ Len(FirstToolCalls) >= 1)
    => (~EndedInOuterCatch /\ SecondCallIssued)

\* C26 holds for every payload but `null` sent to search_web.
C26_HoldsWithoutNullPayload == NoNullPayload => C26_NoPayloadReachesTheHttpLayer

\* The statuses the handler can answer with.
Statuses == { 200, 400, 500 }

\* The invocations that arrived after the first request was answered.
Invocations == IF alone = None THEN {} ELSE {Locals, suspended[1]}

IsPrefix(s, t) == Len(s) <= Len(t) /\ SubSeq(t, 1, Len(s)) = s

(***************************************************************************)
(* C27.  When two requests are processed with their awaits interleaved in  *)
(* any order, each one issues the outbound calls and sends the response it *)
(* does when processed alone: an invocation that got the same body and the *)
(* same answers as the request that ran alone has issued the same calls    *)
(* at every point, and has sent the same response once it is over.         *)
(***************************************************************************)
C27_InterleavedRequestsBehaveAsAlone ==
    \A l \in Invocations :
        (l.request = alone[1].request /\ IsPrefix(l.inbound, alone[1].inbound))
        => /\ IsPrefix(l.outbound, alone[1].outbound)
           /\ (l.pc = "done" /\ l.inbound = alone[1].inbound)
              => (/\ l.outbound = alone[1].outbound
                  /\ l.response = alone[1].response)

C27_Witness ==
    /\ alone # None
    /\ pc = "done"
    /\ request = alone[1].request
    /\ inbound = alone[1].inbound
    /\ Len(inbound) = 3
    /\ response = alone[1].response
    /\ suspended[1].pc = "fetch"
    /\ suspended[1].request # request

(***************************************************************************)
(* C28.  Provided every outbound call eventually returns or fails, every   *)
(* request is eventually answered, with exactly one HTTP response, whose   *)
(* status is 200, 400 or 500, and which stays the only one; a fault of the *)
(* body parser, of the completion service or of the retrieval service      *)
(* leads to such a response too.                                           *)
(***************************************************************************)
C28_EveryRequestGetsOneResponse ==
    /\ [](Len(response) <= 1)
    /\ <>[](/\ pc = "done"
            /\ Len(response) = 1
            /\ response[1].status \in Statuses)

\* C28's case: a request was answered after a fault of the retrieval
\* service and a failure of the second completion-service call.
C28_Witness ==
    /\ Responded
    /\ \E i \in FailedRetrievals : inbound[i].fault
    /\ Len(outbound) \in FailedCompletionCalls
    /\ Status = 500

(***************************************************************************)
(* C29.  When a completion-service or retrieval-service call never         *)
(* answers, the relay still eventually responds.                           *)
(* Violated: the code sets no timeout and passes no abort signal to        *)
(* create() (lines 369-379, 468-477) or to fetch() (lines 274-289); the    *)
(* handler stays at its await for ever and no response is sent.            *)
(***************************************************************************)
C29_HungCallStillAnswered == <>(Len(response) = 1)

(***************************************************************************)
(* C30.  In every 200 response, functionCalled is true exactly when the    *)
(* model's first response contained at least one tool-call request, which  *)
(* is exactly when a second completion-service call was made; this is so   *)
(* also when no retrieval-service call was issued.                         *)
(***************************************************************************)
C30_FunctionCalledIffToolRequested ==
    (Responded /\ Status = 200)
    => (/\ response[1].body.functionCalled = (Len(FirstToolCalls) >= 1)
        /\ response[1].body.functionCalled = SecondCallIssued)

\* C30's case: a 200 response to a turn whose tool calls were all unknown
\* or had bad arguments, so that no retrieval-service call was issued.
C30_Witness ==
    /\ Responded
    /\ Status = 200
    /\ Len(FirstToolCalls) = 2
    /\ RetrievalCalls = {}
    /\ env.FIRECRAWL_API_KEY
    /\ response[1].body.functionCalled

\* The last tool call (position) for which searchWithFirecrawl was called.
LastSearched ==
    LET searched == SearchedCalls
    IN  CHOOSE i \in searched : \A j \in searched : j <= i

\* The content of the tool message sent back for the tool call at i.
SentFor(i) == AnswersTo(SecondCall, FirstToolCalls[i].id)[1].content

(***************************************************************************)
(* C31.  In a 200 response with functionCalled true, searchQuery is the    *)
(* query argument of the last tool call for which the retrieval client was *)
(* called and resultsCount is the count of the result it returned, 0 when  *)
(* that retrieval failed, whatever earlier retrievals returned; they are   *)
(* the empty string and 0 when the retrieval client was not called.        *)
(***************************************************************************)
C31_ReportsTheLastSearch ==
    (Responded /\ Status = 200 /\ response[1].body.functionCalled)
    => LET searched == SearchedCalls IN
       IF searched = {}
       THEN /\ response[1].body.searchQuery = Some("")
            /\ response[1].body.resultsCount = 0
       ELSE LET last == CHOOSE i \in searched : \A j \in searched : j <= i
                sent == ParseContent(SentFor(last))
                count == Get(sent, "resultsCount")
            IN  /\ response[1].body.searchQuery =
                       ReadArgs(JSONParse(
                           FirstToolCalls[last].function.arguments).val).query
                /\ response[1].body.resultsCount =
                       (IF count = None THEN 0 ELSE count[1].n)
                /\ Get(sent, "success") = Some(JBool(FALSE))
                   => response[1].body.resultsCount = 0

\* C31's case: two searches, the first found two records, the last one
\* failed; the response reports the query of the last one and no result.
C31_Witness ==
    /\ Responded
    /\ Status = 200
    /\ SearchedCalls = {1, 2}
    /\ Get(ParseContent(SentFor(1)), "resultsCount") = Some(JNum(2))
    /\ IsFailureTagged(SentFor(2))
    /\ FirstToolCalls[1].function.arguments # FirstToolCalls[2].function.arguments
    /\ response[1].body.resultsCount = 0

\* C31's other case: tool calls were requested and none of them called the
\* retrieval client.
C31_WitnessNoSearch ==
    /\ Responded
    /\ Status = 200
    /\ Len(FirstToolCalls) = 2
    /\ SearchedCalls = {}
    /\ response[1].body.searchQuery = Some("")

\* The records the retrieval service sent in the answer at i of the log.
ServiceRecords(i) == inbound[i].json.data[1]

\* The values searchWithFirecrawl returned without issuing its fetch, the
\* credential missing: one for each tool call it was called for.
ReturnedWithoutFetch ==
    IF SearchFetches(env) THEN {}
    ELSE { searchWithFirecrawl(env,
               ReadArgs(JSONParse(FirstToolCalls[i].function.arguments).val).query,
               None) : i \in SearchedCalls }

(***************************************************************************)
(* C32.  Every value the retrieval client returns satisfies: when it is    *)
(* success-tagged its count is the number of its records and is at least   *)
(* 1, and its records are those of the retrieval service in the same       *)
(* order; when it is failure-tagged its list of records is empty.          *)
(***************************************************************************)
C32_ReturnedValuesAreWellFormed ==
    /\ \A i \in AnsweredRetrievals :
          LET r == Returned(i) IN
          IF r.success
          THEN /\ r.resultsCount = Some(Len(r.results))
               /\ Len(r.results) >= 1
               /\ Len(r.results) = Len(ServiceRecords(i))
               /\ \A j \in 1..Len(ServiceRecords(i)) :
                      r.results[j].url = OrStr(ServiceRecords(i)[j].url, "")
          ELSE r.results = <<>>
    /\ \A r \in ReturnedWithoutFetch : ~r.success /\ r.results = <<>>

\* C32's case: the client returned a success value for an answer of two
\* different records.
C32_Witness ==
    /\ Responded
    /\ \E i \in SucceededRetrievals :
          /\ Len(ServiceRecords(i)) = 2
          /\ ServiceRecords(i)[1].url # ServiceRecords(i)[2].url
          /\ Returned(i).resultsCount = Some(2)

\* The request failed, returned a non-OK status, or its body could not be
\* read as an object.
SendFailed(a) == a.fault \/ ~a.ok \/ a.json.threw \/ a.json.data = JNull

\* The answer a response carries, with the page's text for an empty one.
AnswerOf(a) ==
    OrStr(a.json.data.response, "Sorry, I couldn't generate a response.")

\* The response names the search that was made.
Searched(a) ==
    /\ a.json.data.functionCalled = Some(TRUE)
    /\ a.json.data.searchQuery # None

\* The text typed for the k-th send.
TypedFor(k) == page.sent[k].messages[Len(page.sent[k].messages)].content

(***************************************************************************)
(* C33.  The message list of the chat page is append-only: no step changes *)
(* or removes an entry, and when no send is in flight the list is the      *)
(* greeting followed by, for each send in order, one user message with the *)
(* text typed and one assistant message: the fixed error text when the     *)
(* request failed or was not OK, else the returned answer (after the       *)
(* search indicator line when the response names a search).                *)
(***************************************************************************)
C33_MessageListIsAppendOnly ==
    /\ [][IsPrefix(page.messages, page.messages')]_vars
    /\ [](page.inFlight = <<>>
          => /\ Len(page.received) = Len(page.sent)
             /\ Len(page.messages) = 1 + 2 * Len(page.sent)
             /\ page.messages[1] = Greeting
             /\ \A k \in 1..Len(page.sent) :
                   /\ page.messages[2 * k] =
                          [type |-> "user", content |-> TypedFor(k)]
                   /\ page.messages[2 * k + 1].type = "assistant"
                   /\ IF SendFailed(page.received[k])
                      THEN page.messages[2 * k + 1].content = ErrorText
                      ELSE page.messages[2 * k + 1].content
                           \in { AnswerOf(page.received[k]) }
                               \cup IF Searched(page.received[k])
                                    THEN { Indicator(page.received[k].json.data)
                                           \o AnswerOf(page.received[k]) }
                                    ELSE {})

\* C33's case: two sends are over, the first failed and the second was
\* answered.
C33_Witness ==
    /\ page.inFlight = <<>>
    /\ Len(page.sent) = 2
    /\ page.received[1].fault
    /\ ~SendFailed(page.received[2])
    /\ page.messages[5].content = "Hello!"
    /\ TypedFor(1) # TypedFor(2)

(***************************************************************************)
(* C34.  At most one request of the chat page to /api/chat is in flight:   *)
(* while a send awaits its response, no click and no Enter key press       *)
(* starts another one.                                                     *)
(***************************************************************************)
C34_AtMostOneRequestInFlight == Len(page.inFlight) <= 1

\* C34's case: the second send awaits its response, the page shows it is
\* loading and both controls are disabled.
C34_Witness ==
    /\ Len(page.inFlight) = 1
    /\ Len(page.sent) = 2
    /\ page.isLoading
    /\ InputDisabled(page.rendered)
    /\ ButtonDisabled(page.rendered)

(***************************************************************************)
(* C35.  Every send that sets isLoading to true is eventually followed by  *)
(* isLoading being set back to false, whether the request succeeds,        *)
(* returns a non-OK status or throws; and a call of handleSendMessage with *)
(* a blank input changes no state and sends no request.                    *)
(***************************************************************************)
C35_LoadingEndsAndBlankSendDoesNothing ==
    /\ page.isLoading ~> ~page.isLoading
    /\ [][(page'.calls = page.calls + 1 /\ Trim(page.rendered.inputValue) = "")
          => page' = [page EXCEPT !.calls = @ + 1]]_vars

\* C35's case: handleSendMessage was called once with a blank input and
\* once with a text whose request threw, and the page no longer loads.
C35_Witness ==
    /\ page.calls = 2
    /\ Len(page.sent) = 1
    /\ page.received = <<[fault |-> TRUE, message |-> "Failed to fetch"]>>
    /\ ~page.isLoading
    /\ page.rendered = View(page)

====
